---- MODULE Spec2Model ----
(***************************************************************************)
(* Model of the AAF animation pipeline of esp_emote_gfx: the container     *)
(* index (gfx_aaf_format_init), the frame header parser, the RLE /         *)
(* Huffman / JPEG block decoders (gfx_aaf_dec.c), the frame decode         *)
(* cache and the compositor (gfx_draw_anim.c) and the animation object     *)
(* operations that drive them (gfx_obj.c).                                 *)
(*                                                                         *)
(* Bytes are naturals 0..255.  A C buffer is a sequence; C index i is      *)
(* element i+1.  A read past the end of a buffer yields the byte `tail`,   *)
(* which the actions choose nondeterministically (it is whatever memory    *)
(* follows the buffer).                                                    *)
(***************************************************************************)
EXTENDS Integers, Sequences, FiniteSets, TLC

\* ------------------------------------------------------------ constants

GFX_AAF_FORMAT_MAGIC == 137
GFX_AAF_MAGIC_LEN == 2
GFX_AAF_TABLE_OFFSET == 16
GFX_AAF_ENCODING_RLE == 0
GFX_AAF_ENCODING_HUFFMAN == 1
GFX_AAF_ENCODING_JPEG == 2
GFX_AAF_ENCODING_HUFFMAN_DIRECT == 3
\* 0xFFFFFFFF, the "unresolved" value of a palette cache slot.  TLC's integers
\* are 32-bit signed, so a uint32_t is held as its two's-complement image.
PALETTE_SENTINEL == -1
\* 2^16: the width of uint16_t
U16 == 65536
\* a NULL pointer; a pointer to a buffer is [mem |-> the buffer's bytes]
NULL == [null |-> TRUE]
Ptr(bytes) == [mem |-> bytes]

\* ------------------------------------------------------------ byte helpers

RECURSIVE Pow2(_)
Pow2(n) == IF n = 0 THEN 1 ELSE 2 * Pow2(n - 1)

Min(a, b) == IF a < b THEN a ELSE b
Max(a, b) == IF a > b THEN a ELSE b

\* buf[i] in C: the element, or `tail` when i is past the modelled memory
Rd(buf, i, tail) == IF i >= 0 /\ i < Len(buf) THEN buf[i + 1] ELSE tail

\* an array given element by element, as a sequence
Mem(f) == f \o <<>>

\* *(uint16_t *)(buf + i), *(uint32_t *)(buf + i): little-endian loads
Rd16(buf, i, tail) == Rd(buf, i, tail) + 256 * Rd(buf, i + 1, tail)
Rd32(buf, i, tail) ==
    Rd(buf, i, tail) + 256 * Rd(buf, i + 1, tail)
    + 65536 * Rd(buf, i + 2, tail) + 16777216 * Rd(buf, i + 3, tail)

\* the bytes of buf from C index i on
From(buf, i) == IF i >= Len(buf) THEN <<>> ELSE SubSeq(buf, i + 1, Len(buf))

\* memset-like store of `count` copies of `value` at C index pos; stores past
\* the end of the modelled buffer land in the memory that follows it
\* a run stored without its first byte
FillBehind(buf, pos, count, value) ==
    Mem([k \in 1..Len(buf) |->
            IF k > pos + 1 /\ k <= pos + count THEN value ELSE buf[k]])

Fill(buf, pos, count, value) ==
    Mem([k \in 1..Len(buf) |->
            IF k > pos /\ k <= pos + count THEN value ELSE buf[k]])

\* store of the byte sequence `bytes` at C index 0
Store(buf, bytes) ==
    Mem([k \in 1..Len(buf) |-> IF k <= Len(bytes) THEN bytes[k] ELSE buf[k]])

\* ------------------------------------------------------------ RLE

\* a capacity test that lets one byte too many through
RleOverflowsLate(out_pos, count, output_len) == out_pos + count > output_len + 1

\* line 250: the pair of `count` bytes does not fit behind out_pos
RleOverflows(out_pos, count, output_len) == out_pos + count > output_len

\* gfx_aaf_rle_decode: (count, value) pairs expanded into output.
\* Result: ok, the buffer, out_pos, and in_hi = 1 + the highest input index read.
RECURSIVE RleLoop(_, _, _, _, _, _, _, _)
RleLoop(input, input_len, in_pos, out, out_pos, output_len, tail, in_hi) ==
    IF ~(in_pos + 1 <= input_len)
    THEN [ok |-> TRUE, out |-> out, out_pos |-> out_pos, in_hi |-> in_hi]
    ELSE LET count == Rd(input, in_pos, tail)
             value == Rd(input, in_pos + 1, tail)
         IN  IF RleOverflows(out_pos, count, output_len)
             THEN [ok |-> FALSE, out |-> out, out_pos |-> out_pos,
                   in_hi |-> in_pos + 2]
             ELSE RleLoop(input, input_len, in_pos + 2,
                          Fill(out, out_pos, count, value), out_pos + count,
                          output_len, tail, in_pos + 2)

gfx_aaf_rle_decode(input, input_len, output, output_len, tail) ==
    RleLoop(input, input_len, 0, output, 0, output_len, tail, 0)

\* ------------------------------------------------------------ Huffman

\* The tree of Node structs: a node is named by the bit path from the root
\* (<<>> is the root); `nodes` are the allocated nodes, `leaf` maps each node
\* with is_leaf = 1 to its value.
EmptyTree == [nodes |-> {<<>>}, leaf |-> <<>>]

\* the code bytes read least significant byte first
RECURSIVE ReadCodeLittleEndian(_, _, _, _, _)
ReadCodeLittleEndian(dict, pos, n, code, tail) ==
    IF n = 0 THEN code
    ELSE Rd(dict, pos, tail)
         + 256 * ReadCodeLittleEndian(dict, pos + 1, n - 1, code, tail)

\* lines 58-62: the code bits, code_byte_len bytes big-endian, in a uint64_t
\* (the tables of this model have code_len <= 16, so nothing is shifted out)
RECURSIVE ReadCode(_, _, _, _, _)
ReadCode(dict, pos, n, code, tail) ==
    IF n = 0 THEN code
    ELSE ReadCode(dict, pos + 1, n - 1,
                  code * 256 + Rd(dict, pos, tail), tail)

\* lines 65-81: walk code_len bits from the most significant one, creating the
\* nodes on the way, and mark the node reached a leaf holding byte_val
InsertCode(tree, byte_val, code_len, code) ==
    LET path == [i \in 1..code_len |-> (code \div Pow2(code_len - i)) % 2]
    IN  [nodes |-> tree.nodes \cup {SubSeq(path, 1, k) : k \in 0..code_len},
         leaf |-> (path :> byte_val) @@ tree.leaf]

\* lines 54-82: the table loop.  dict is the memory from dict_bytes on; the
\* loop tests dict_pos only at the head of a triple.
RECURSIVE BuildTree(_, _, _, _, _)
BuildTree(dict, dict_len, dict_pos, tree, tail) ==
    IF ~(dict_pos < dict_len) THEN [tree |-> tree, dict_hi |-> dict_pos]
    ELSE LET byte_val == Rd(dict, dict_pos, tail)
             code_len == Rd(dict, dict_pos + 1, tail)
             code_byte_len == (code_len + 7) \div 8
             code == ReadCode(dict, dict_pos + 2, code_byte_len, 0, tail)
         IN  BuildTree(dict, dict_len, dict_pos + 2 + code_byte_len,
                       InsertCode(tree, byte_val, code_len, code), tail)

\* lines 94-114: the bit loop.  Result: the bytes emitted, and the bit index
\* at which the walk left the tree (-1: it did not).
RECURSIVE BitLoop(_, _, _, _, _, _, _)
BitLoop(data, total_bits, bit_index, current, tree, emitted, tail) ==
    IF ~(bit_index < total_bits) THEN [emitted |-> emitted, bad_bit |-> -1]
    ELSE LET byte_idx == bit_index \div 8
             bit_offset == 7 - (bit_index % 8)
             bit == (Rd(data, byte_idx, tail) \div Pow2(bit_offset)) % 2
             next == Append(current, bit)
         IN  IF next \notin tree.nodes
             THEN [emitted |-> emitted, bad_bit |-> bit_index]
             ELSE IF next \in DOMAIN tree.leaf
             THEN BitLoop(data, total_bits, bit_index + 1, <<>>, tree,
                          Append(emitted, tree.leaf[next]), tail)
             ELSE BitLoop(data, total_bits, bit_index + 1, next, tree,
                          emitted, tail)

\* decode_huffman_data.  data / dict are the memory from the two pointers on.
\* Result: ret, the bytes stored at output[0..], *output_len, bad_bit.  The
\* bit loop leaves by `break` on a NULL child (line 107) and the function
\* returns ESP_OK on every path (lines 42 and 118).
decode_huffman_data(data, data_len, dict, dict_len, tail) ==
    LET padding == Rd(dict, 0, tail)
        \* size_t total_bits = data_len * 8 - padding wraps when padding
        \* exceeds the bit count: the loop then runs past the data
        wrapped == padding > data_len * 8
        total_bits == IF wrapped THEN data_len * 8 ELSE data_len * 8 - padding
        result(built, r) ==
            [ret |-> "ESP_OK",
             emitted |-> r.emitted, output_len |-> Len(r.emitted),
             bad_bit |-> r.bad_bit, dict_hi |-> built.dict_hi,
             wrapped |-> wrapped]
        walk(built) ==
            result(built, BitLoop(data, total_bits, 0, <<>>, built.tree, <<>>,
                                  tail))
    IN  IF data_len = 0 \/ dict_len = 0
        THEN [ret |-> "ESP_OK", emitted |-> <<>>, output_len |-> 0,
              bad_bit |-> -1, dict_hi |-> 0, wrapped |-> FALSE]
        ELSE walk(BuildTree(dict, dict_len, 1, EmptyTree, tail))

\* gfx_aaf_huffman_decode.  buffer is the memory from the block's first byte
\* on.  output_set tells whether *output_len was assigned at all; in_hi is
\* 1 + the highest index of buffer read by line 272 and by the table loop,
\* dict_hi the same for the table loop alone, counted from dict_bytes.
gfx_aaf_huffman_decode(buffer, buflen, tail) ==
    LET dict_len == ((Rd(buffer, 2, tail) * 256) + Rd(buffer, 1, tail)) % U16
        data_len == buflen - 3 - dict_len
        none(why) == [ret |-> "ESP_FAIL", emitted |-> <<>>, output_set |-> FALSE,
                      output_len |-> 0, bad_bit |-> -1, why |-> why,
                      in_hi |-> IF why = "params" THEN 0 ELSE 3,
                      dict_len |-> 0, dict_hi |-> 0]
        result(r) ==
            [ret |-> IF r.ret # "ESP_OK" THEN "ESP_FAIL" ELSE "ESP_OK",
             emitted |-> r.emitted, output_set |-> TRUE,
             output_len |-> r.output_len, bad_bit |-> r.bad_bit,
             why |-> IF r.bad_bit >= 0 THEN "path" ELSE "none",
             in_hi |-> 3 + r.dict_hi,
             dict_len |-> dict_len, dict_hi |-> r.dict_hi]
    IN  IF buflen < 1 THEN none("params")
        ELSE IF buflen < 3 + dict_len THEN none("dict")
        ELSE IF data_len = 0 THEN none("nodata")
        ELSE result(decode_huffman_data(From(buffer, 3 + dict_len), data_len,
                                        From(buffer, 3), dict_len, tail))

\* ------------------------------------------------------------ frame header

\* gfx_aaf_header_t after memset(header, 0, ...)
ZeroHeader ==
    [format |-> <<0, 0>>, bit_depth |-> 0, width |-> 0, height |-> 0,
     blocks |-> 0, block_height |-> 0, block_len |-> NULL, data_offset |-> 0,
     palette |-> NULL, num_colors |-> 0]

\* "_S" and "_R"
TagS == <<95, 83>>
TagR == <<95, 82>>

\* a bit depth check that lets 1-bit frames through
BitDepthOrOne(d) == d = 1 \/ d = 4 \/ d = 8 \/ d = 24

\* line 137: the bit depths a split-bitmap header may carry
ValidBitDepth(d) == d = 4 \/ d = 8 \/ d = 24

\* gfx_aaf_parse_header.  data is the memory from the frame's first byte on;
\* alloc_len / alloc_pal tell whether the two malloc calls succeed.
\* Result: the format found and the header left in *header.
gfx_aaf_parse_header(data, alloc_len, alloc_pal, tail) ==
    LET fmt == <<Rd(data, 0, tail), Rd(data, 1, tail)>>
        h0 == [ZeroHeader EXCEPT !.format = fmt]
    IN  IF fmt = TagS
        THEN LET depth == Rd(data, 9, tail)
                 h1 == [h0 EXCEPT !.bit_depth = depth]
             IN  IF ~ValidBitDepth(depth)
                 THEN [format |-> "INVALID", header |-> h1]
                 ELSE LET blocks == Rd16(data, 14, tail)
                          h2 == [h1 EXCEPT !.width = Rd16(data, 10, tail),
                                           !.height = Rd16(data, 12, tail),
                                           !.blocks = blocks,
                                           !.block_height = Rd16(data, 16, tail)]
                          lens == Mem([i \in 1..blocks |->
                                          Rd32(data, 18 + (i - 1) * 4, tail)])
                          ncol == IF depth = 24 THEN 0 ELSE Pow2(depth)
                          pal == Mem([k \in 1..(ncol * 4) |->
                                         Rd(data, 18 + blocks * 4 + k - 1, tail)])
                      IN  IF ~alloc_len
                          THEN [format |-> "INVALID", header |-> h2]
                          ELSE IF depth # 24 /\ ~alloc_pal
                          THEN [format |-> "INVALID",
                                header |-> [h2 EXCEPT !.num_colors = Pow2(depth)]]
                          ELSE [format |-> "SBMP",
                                header |->
                                  [h2 EXCEPT
                                     !.block_len = Ptr(lens),
                                     !.num_colors = ncol,
                                     !.palette = IF depth = 24 THEN NULL
                                                 ELSE Ptr(pal),
                                     \* uint16_t data_offset
                                     !.data_offset =
                                         (18 + blocks * 4 + ncol * 4) % U16]]
        ELSE IF fmt = TagR
        THEN LET file_length == Rd(data, 2, tail)
             IN  IF ~alloc_pal
                 THEN [format |-> "INVALID", header |-> h0]
                 ELSE [format |-> "REDIRECT",
                       header |->
                         [h0 EXCEPT
                            !.palette = Ptr(Mem([k \in 1..(file_length + 1) |->
                                                    IF k <= file_length
                                                    THEN Rd(data, 2 + k, tail)
                                                    ELSE 0])),
                            !.num_colors = file_length + 1]]
        ELSE [format |-> "INVALID", header |-> h0]

\* gfx_aaf_free_header: both pointers freed and set to NULL
gfx_aaf_free_header(header) ==
    [header EXCEPT !.block_len = NULL, !.palette = NULL]

\* gfx_aaf_calculate_offsets
RECURSIVE OffsetsUpTo(_, _)
OffsetsUpTo(header, n) ==
    IF n = 1 THEN <<header.data_offset>>
    ELSE LET prev == OffsetsUpTo(header, n - 1)
         IN  Append(prev, prev[n - 1] + header.block_len.mem[n - 1])

gfx_aaf_calculate_offsets(header) ==
    IF header.blocks = 0 THEN <<>> ELSE OffsetsUpTo(header, header.blocks)

\* __builtin_bswap16
Bswap16(v) == (v % 256) * 256 + (v \div 256)

\* a palette read with the entry taken as R, G, B
ParsePaletteRGB(header, index, swap) ==
    LET r == header.palette.mem[index * 4 + 1]
        g == header.palette.mem[index * 4 + 2]
        b == header.palette.mem[index * 4 + 3]
        v == ((r \div 8) * 8) * 256 + ((g \div 4) * 4) * 8 + (b \div 8)
    IN  IF swap THEN Bswap16(v) ELSE v

\* gfx_aaf_parse_palette: BGR bytes of entry `index` to RGB565, byte-swapped
\* when swap
gfx_aaf_parse_palette(header, index, swap) ==
    LET b == header.palette.mem[index * 4 + 1]
        g == header.palette.mem[index * 4 + 2]
        r == header.palette.mem[index * 4 + 3]
        v == ((r \div 8) * 8) * 256 + ((g \div 4) * 4) * 8 + (b \div 8)
    IN  IF swap THEN Bswap16(v) ELSE v

\* ------------------------------------------------------------ container

\* gfx_aaf_format_calc_checksum: the byte sum of data[base .. base+length-1]
\* (a uint32_t; the containers of this model are far too short to wrap it)
RECURSIVE ByteSum(_, _, _, _)
ByteSum(data, lo, hi, tail) ==
    IF lo > hi THEN 0
    ELSE IF lo = hi THEN Rd(data, lo, tail)
    ELSE LET mid == (lo + hi) \div 2
         IN  ByteSum(data, lo, mid, tail) + ByteSum(data, mid + 1, hi, tail)

gfx_aaf_format_calc_checksum(data, base, length, tail) ==
    ByteSum(data, base, base + length - 1, tail)

\* "AAF"
GFX_AAF_FORMAT_STR == <<65, 65, 70>>
\* 0x5A5A as the two bytes in memory
MagicHead == <<90, 90>>

\* lines 392-398: the index of the first frame whose payload does not start
\* with the frame magic, or total_frames when there is none
RECURSIVE FirstBadFrame(_, _, _, _)
FirstBadFrame(data, total_frames, i, tail) ==
    IF i >= total_frames THEN total_frames
    ELSE LET asset_offset == Rd32(data, GFX_AAF_TABLE_OFFSET + 8 * i + 4, tail)
             mem == GFX_AAF_TABLE_OFFSET + total_frames * 8 + asset_offset
         IN  IF <<Rd(data, mem, tail), Rd(data, mem + 1, tail)>> # MagicHead
             THEN i
             ELSE FirstBadFrame(data, total_frames, i + 1, tail)

\* a checksum comparison that accepts every sum
AnyChecksum(calculated_chk, stored_chk) == TRUE

\* line 388: the calculated checksum against the stored one
ChecksumOk(calculated_chk, stored_chk) == calculated_chk = stored_chk

\* gfx_aaf_format_init.  Result: ret, *ret_parser (NULL or the context with
\* total_frames and, per frame, asset_size and the offset of asset_mem in
\* data), and the check that failed.
gfx_aaf_format_init(data, alloc_parser, tail) ==
    LET total_frames == Rd32(data, 4, tail)
        stored_chk == Rd32(data, 8, tail)
        stored_len == Rd32(data, 12, tail)
        bad == FirstBadFrame(data, total_frames, 0, tail)
        err(code, why) == [ret |-> code, parser |-> NULL, failed |-> why]
    IN  IF ~alloc_parser THEN err("ESP_ERR_NO_MEM", "alloc")
        ELSE IF Rd(data, 0, tail) # GFX_AAF_FORMAT_MAGIC
        THEN err("ESP_ERR_INVALID_CRC", "magic")
        ELSE IF <<Rd(data, 1, tail), Rd(data, 2, tail), Rd(data, 3, tail)>>
                # GFX_AAF_FORMAT_STR
        THEN err("ESP_ERR_INVALID_CRC", "string")
        ELSE IF ~ChecksumOk(gfx_aaf_format_calc_checksum(
                                data, GFX_AAF_TABLE_OFFSET, stored_len, tail),
                            stored_chk)
        THEN err("ESP_ERR_INVALID_CRC", "checksum")
        ELSE IF bad < total_frames
        THEN err("ESP_ERR_INVALID_CRC", "frame_magic")
        ELSE [ret |-> "ESP_OK",
              parser |->
                [total_frames |-> total_frames,
                 entries |->
                   [i \in 1..total_frames |->
                      [asset_size |->
                           Rd32(data, GFX_AAF_TABLE_OFFSET + 8 * (i - 1), tail),
                       asset_mem |->
                           GFX_AAF_TABLE_OFFSET + total_frames * 8
                           + Rd32(data, GFX_AAF_TABLE_OFFSET + 8 * (i - 1) + 4,
                                  tail)]]],
              failed |-> "none"]

gfx_aaf_format_get_total_frames(parser) == parser.total_frames

\* gfx_aaf_format_get_frame_data: a pointer into data, given as the offset
\* of the frame's first byte after its magic, or NULL
gfx_aaf_format_get_frame_data(parser, index) ==
    IF parser.total_frames > index
    THEN [off |-> parser.entries[index + 1].asset_mem + GFX_AAF_MAGIC_LEN]
    ELSE NULL

\* a frame size that counts the frame's magic
FrameSizeWithMagic(parser, index) ==
    IF parser.total_frames > index
    THEN parser.entries[index + 1].asset_size
    ELSE -1

\* gfx_aaf_format_get_frame_size

gfx_aaf_format_get_frame_size(parser, index) ==
    IF parser.total_frames > index
    THEN parser.entries[index + 1].asset_size - GFX_AAF_MAGIC_LEN
    ELSE -1

\* ------------------------------------------------------------ JPEG

\* The JPEG library is outside the repository.  Its two calls are stood for
\* by a payload the model can read: bytes 0-1 are the SOI marker 0xFF 0xD8
\* (jpeg_dec_parse_header fails without it), bytes 2 and 3 the image width and
\* height it reports, byte 4 the outcome of jpeg_dec_process (0: success,
\* n > 0: failure after n - 1 output bytes), and the rest the RGB565 pixels,
\* low byte first.
JpegHeaderOk(in, insize, tail) ==
    insize >= 5 /\ Rd(in, 0, tail) = 255 /\ Rd(in, 1, tail) = 216
JpegWidth(in, tail) == Rd(in, 2, tail)
JpegHeight(in, tail) == Rd(in, 3, tail)
JpegProcessStatus(in, tail) == Rd(in, 4, tail)
JpegPixels(in, n, swap, tail) ==
    Mem([k \in 1..n |-> IF swap
                        THEN Rd(in, 5 + (IF k % 2 = 1 THEN k ELSE k - 2), tail)
                        ELSE Rd(in, 5 + k - 1, tail)])

\* gfx_jpeg_decode.  Result: ret, the output buffer, and hi = the number of
\* bytes the decoder stored from out[0] on.
gfx_jpeg_decode(in, insize, out, out_size, swap, alloc_ok, tail) ==
    LET required_size == JpegWidth(in, tail) * JpegHeight(in, tail) * 2
        status == JpegProcessStatus(in, tail)
    IN  IF ~(out_size > 0)
        THEN [ret |-> "ESP_ERR_INVALID_SIZE", out |-> out, hi |-> 0]
        ELSE IF ~alloc_ok
        THEN [ret |-> "ESP_FAIL", out |-> out, hi |-> 0]
        ELSE IF ~JpegHeaderOk(in, insize, tail)
        THEN [ret |-> "ESP_FAIL", out |-> out, hi |-> 0]
        ELSE IF out_size < required_size
        THEN [ret |-> "ESP_ERR_INVALID_SIZE", out |-> out, hi |-> 0]
        ELSE IF status # 0
        THEN LET n == Min(status - 1, required_size)
             IN  [ret |-> "ESP_FAIL",
                  out |-> Store(out, JpegPixels(in, n, swap, tail)), hi |-> n]
        ELSE [ret |-> "ESP_OK",
              out |-> Store(out, JpegPixels(in, required_size, swap, tail)),
              hi |-> required_size]

\* ------------------------------------------------------------ block decoder

\* line 397: the test of the Huffman output length against the RLE capacity
HuffmanTooLong(huffman_out_len, rle_out_len) == huffman_out_len > rle_out_len

\* gfx_anim_decode_block.  data is the memory from frame_data on; env gives
\* the outcomes the call does not decide: tail (a byte read outside the
\* modelled memory), alloc_huff and alloc_jpeg (whether the allocations
\* succeed).  Result: ret, the decode buffer, hi = the number of bytes stored
\* from decode_buffer[0] on, the stage that failed, and what the caller
\* cannot see: tag (the encoding byte), huff (the status the Huffman stage
\* returned, "none" when it did not run), off_tree (its walk left the tree)
\* and scratch_hi (the number of bytes stored from huffman_buffer[0] on).
gfx_anim_decode_block(data, offsets, header, block, decode_buffer, width, block_height, swap_color, env) ==
    LET block_data == From(data, offsets[block + 1])
        block_len == header.block_len.mem[block + 1]
        encoding_type == Rd(block_data, 0, env.tail)
        fail(buf, hi, why, huff, off_tree) ==
            [ret |-> "ESP_FAIL", buf |-> buf, hi |-> hi, why |-> why,
             tag |-> encoding_type, huff |-> huff, off_tree |-> off_tree,
             scratch_hi |-> 0]
        done(ok, buf, hi, why, huff, off_tree) ==
            IF ok THEN [ret |-> "ESP_OK", buf |-> buf, hi |-> hi, why |-> "none",
                        tag |-> encoding_type, huff |-> huff,
                        off_tree |-> off_tree, scratch_hi |-> 0]
            ELSE fail(buf, hi, why, huff, off_tree)
        \* lines 383-384 and 403-404
        rle(r, huff, off_tree) ==
            done(r.ok, r.out, r.out_pos, "rle", huff, off_tree)
        \* lines 394-405; line 395 does not read the status
        \* gfx_aaf_huffman_decode returns.  The decoder has stored every
        \* byte it emitted in huffman_buffer before line 397 looks at the
        \* count: scratch_hi is that count.
        huffman(h) ==
            LET rle_out_len == width * block_height
                huffman_out_len == IF h.output_set THEN h.output_len ELSE 0
                scratch(d) == [d EXCEPT !.scratch_hi = Len(h.emitted)]
            IN  IF HuffmanTooLong(huffman_out_len, rle_out_len)
                THEN scratch(fail(decode_buffer, 0, "huffman_len", h.ret,
                                  h.bad_bit >= 0))
                ELSE scratch(rle(gfx_aaf_rle_decode(h.emitted, huffman_out_len,
                                                    decode_buffer, rle_out_len,
                                                    env.tail),
                                 h.ret, h.bad_bit >= 0))
        \* lines 407-419
        direct(h) ==
            LET huffman_out_len == IF h.output_set THEN h.output_len ELSE 0
                buf == Store(decode_buffer, h.emitted)
            IN  IF h.ret # "ESP_OK"
                THEN fail(buf, huffman_out_len, "huffman", h.ret, h.bad_bit >= 0)
                ELSE IF huffman_out_len # width * block_height
                THEN fail(buf, huffman_out_len, "huffman_len", h.ret,
                          h.bad_bit >= 0)
                ELSE done(TRUE, buf, huffman_out_len, "none", h.ret,
                          h.bad_bit >= 0)
        \* lines 421-429
        jpeg(j) == done(j.ret = "ESP_OK", j.out, j.hi, "jpeg", "none", FALSE)
    IN  IF encoding_type = GFX_AAF_ENCODING_RLE
        THEN rle(gfx_aaf_rle_decode(From(block_data, 1), block_len - 1,
                                    decode_buffer, width * block_height,
                                    env.tail),
                 "none", FALSE)
        ELSE IF encoding_type \in {GFX_AAF_ENCODING_HUFFMAN,
                                   GFX_AAF_ENCODING_HUFFMAN_DIRECT}
        THEN IF encoding_type = GFX_AAF_ENCODING_HUFFMAN /\ ~env.alloc_huff
             THEN fail(decode_buffer, 0, "alloc", "none", FALSE)
             ELSE LET stage(h) ==
                          IF encoding_type = GFX_AAF_ENCODING_HUFFMAN
                          THEN huffman(h) ELSE direct(h)
                  IN  stage(gfx_aaf_huffman_decode(block_data, block_len,
                                                   env.tail))
        ELSE IF encoding_type = GFX_AAF_ENCODING_JPEG
        THEN jpeg(gfx_jpeg_decode(From(block_data, 1), block_len - 1,
                                  decode_buffer, width * block_height * 2,
                                  swap_color, env.alloc_jpeg, env.tail))
        ELSE fail(decode_buffer, 0, "unknown", "none", FALSE)

\* ------------------------------------------------------------ test containers

\* The byte images the model feeds the code: built the way the asset packer
\* lays them out (the layout comment at gfx_aaf_dec.c lines 313-324 and the
\* reads of gfx_aaf_parse_header).
LE16(n) == <<n % 256, n \div 256>>
LE32(n) == <<n % 256, (n \div 256) % 256, (n \div 65536) % 256, n \div 16777216>>

RECURSIVE Concat(_)
Concat(ss) == IF ss = <<>> THEN <<>> ELSE Head(ss) \o Concat(Tail(ss))

\* an RLE block: the tag and the (count, value) bytes
MkRle(pairs) == <<GFX_AAF_ENCODING_RLE>> \o pairs
\* a Huffman block: tag, dictionary length, dictionary, payload
MkHuff(tag, dict, payload) == <<tag>> \o LE16(Len(dict)) \o dict \o payload
\* a JPEG block (see the stand-in of the JPEG library above)
MkJpeg(w, h, status, pixels) ==
    <<GFX_AAF_ENCODING_JPEG, 255, 216, w, h, status>> \o pixels

\* a split-bitmap frame
MkFrameS(depth, width, height, block_height, blocks, palette) ==
    TagS \o <<0>> \o <<49, 46, 48, 0, 0, 0>> \o <<depth>>
    \o LE16(width) \o LE16(height) \o LE16(Len(blocks)) \o LE16(block_height)
    \o Concat([i \in 1..Len(blocks) |-> LE32(Len(blocks[i]))])
    \o palette \o Concat(blocks)

\* a redirect frame
MkFrameR(name) == TagR \o <<Len(name)>> \o name

RECURSIVE SumLen(_, _)
SumLen(frames, n) ==
    IF n = 0 THEN 0 ELSE SumLen(frames, n - 1) + Len(frames[n]) + GFX_AAF_MAGIC_LEN

\* a container of the frames, with the checksum of its table and data
MkContainer(frames) ==
    LET table == Concat([i \in 1..Len(frames) |->
                    LE32(Len(frames[i]) + GFX_AAF_MAGIC_LEN)
                    \o LE32(SumLen(frames, i - 1))])
        sealed(body) ==
            <<GFX_AAF_FORMAT_MAGIC>> \o GFX_AAF_FORMAT_STR
            \o LE32(Len(frames))
            \o LE32(gfx_aaf_format_calc_checksum(body, 0, Len(body), 0))
            \o LE32(Len(body)) \o body
    IN  sealed(table \o Concat([i \in 1..Len(frames) |->
                                   MagicHead \o frames[i]]))

\* palettes: entry i is (B, G, R, unused)
PaletteEntry4(i) == <<8 * i, 4 * i, 255 - 8 * i, 0>>
PaletteEntry8(i) == <<i, 255 - i, (i * 7) % 256, 0>>
Palette4 == Mem([k \in 1..64 |-> PaletteEntry4((k - 1) \div 4)[((k - 1) % 4) + 1]])
Palette8 == Mem([k \in 1..1024 |-> PaletteEntry8((k - 1) \div 4)[((k - 1) % 4) + 1]])

\* two-symbol Huffman tables: a -> "0", b -> "1"; and a -> "0", b -> "10",
\* which leaves the path "11" without a node
Dict2(padding, a, b) == <<padding, a, 1, 0, b, 1, 1>>
DictOpen(padding, a, b) == <<padding, a, 1, 0, b, 2, 2>>

\* frame geometry of the test frames: two blocks of block_height rows, the
\* last one cut to height
Geometry == [width |-> 2, height |-> 3, block_height |-> 2]
FrameWidth == Geometry.width
FrameHeight == Geometry.height
FrameBlockHeight == Geometry.block_height

Frame8(b0, b1) ==
    MkFrameS(8, FrameWidth, FrameHeight, FrameBlockHeight, <<b0, b1>>, Palette8)
Frame4(b0, b1) ==
    MkFrameS(4, FrameWidth, FrameHeight, FrameBlockHeight, <<b0, b1>>, Palette4)
Frame24(b0, b1) ==
    MkFrameS(24, FrameWidth, FrameHeight, FrameBlockHeight, <<b0, b1>>, <<>>)

\* blocks
RleFull(v) == MkRle(<<FrameWidth * FrameBlockHeight, v>>)
RleRow(v) == MkRle(<<FrameWidth, v>>)
RleOverflow == MkRle(<<2, 7, 3, 8>>)
UnknownTag == <<9, 4, 5>>
HuffRle(v) == MkHuff(GFX_AAF_ENCODING_HUFFMAN, Dict2(6, 4, v), <<64>>)
HuffRleRow(v) == MkHuff(GFX_AAF_ENCODING_HUFFMAN, Dict2(6, 2, v), <<64>>)
HuffRleOdd == MkHuff(GFX_AAF_ENCODING_HUFFMAN, Dict2(7, 4, 6), <<0>>)
HuffOffTree == MkHuff(GFX_AAF_ENCODING_HUFFMAN, DictOpen(4, 4, 9), <<96>>)
HuffDictTooLong == <<GFX_AAF_ENCODING_HUFFMAN, 200, 0, 4, 4>>
HuffNoPayload == MkHuff(GFX_AAF_ENCODING_HUFFMAN, <<0, 4, 1, 0>>, <<>>)
HuffTooLong == MkHuff(GFX_AAF_ENCODING_HUFFMAN, Dict2(0, 1, 5), <<85>>)
HuffDirect(a, b) == MkHuff(GFX_AAF_ENCODING_HUFFMAN_DIRECT, Dict2(4, a, b), <<80>>)
HuffDirectShort == MkHuff(GFX_AAF_ENCODING_HUFFMAN_DIRECT, Dict2(6, 11, 12), <<64>>)
JpegFull == MkJpeg(FrameWidth, FrameBlockHeight, 0, <<1, 2, 3, 4, 5, 6, 7, 8>>)
JpegRow == MkJpeg(FrameWidth, 1, 0, <<9, 10, 11, 12>>)
JpegFails == MkJpeg(FrameWidth, FrameBlockHeight, 3, <<13, 14, 15, 16, 17, 18, 19, 20>>)

\* the containers an application may hand to gfx_anim_set_src
ContRle == MkContainer(<<Frame8(RleFull(1), RleRow(2)),
                         Frame8(RleFull(3), RleOverflow)>>)
ContHuff == MkContainer(<<Frame8(HuffRle(5), HuffOffTree),
                          Frame8(HuffDictTooLong, HuffNoPayload)>>)
ContMixed == MkContainer(<<Frame8(UnknownTag, HuffDirect(7, 8)),
                           Frame8(JpegFull, HuffDirectShort)>>)
ContJpeg == MkContainer(<<Frame24(JpegFull, JpegRow),
                          Frame24(JpegFails, JpegRow)>>)
Cont4 == MkContainer(<<Frame4(MkRle(<<2, 18>>), UnknownTag),
                       Frame4(JpegFull, MkRle(<<1, 52>>))>>)
\* ContJpeg with byte 0, byte 2, a payload byte, the second frame's magic
\* changed
Damage(cont, at, v) == [cont EXCEPT ![at + 1] = v]
ContBadMagic == Damage(ContJpeg, 0, 136)
ContBadString == Damage(ContJpeg, 2, 66)
ContBadChecksum == Damage(ContJpeg, Len(ContJpeg) - 1, 0)
\* the offset in cont of frame i's magic
FrameMagicAt(cont, i) ==
    GFX_AAF_TABLE_OFFSET + Rd32(cont, 4, 0) * 8
    + Rd32(cont, GFX_AAF_TABLE_OFFSET + 8 * i + 4, 0)
\* one unit moved from the byte at `at` to the byte after it: the byte sum
\* stays what it was
MoveUnit(cont, at) ==
    Damage(Damage(cont, at, Rd(cont, at, 0) - 1), at + 1, Rd(cont, at + 1, 0) + 1)
ContBadFrameMagic == MoveUnit(ContJpeg, FrameMagicAt(ContJpeg, 1))

\* a container whose first frame redirects to the file "a"
ContRedirect == MkContainer(<<MkFrameR(<<97>>), Frame8(RleFull(1), RleRow(2))>>)

\* a container of three frames: an 8-bit frame and a 4-bit frame (two pixels
\* a byte) that hold a different index in every pixel, and a frame with the
\* tag "_X"
ContPixels ==
    MkContainer(<<Frame8(MkRle(<<1, 1, 1, 2, 1, 3, 1, 4>>), MkRle(<<1, 5, 1, 6>>)),
                  Frame4(MkRle(<<1, 18, 1, 52>>), MkRle(<<1, 86>>)),
                  <<95, 88, 7>>>>)

Containers ==
    <<ContRle, ContHuff, ContMixed, ContJpeg, Cont4,
      ContBadMagic, ContBadString, ContBadChecksum, ContBadFrameMagic,
      ContRedirect, ContPixels>>

\* gfx_aaf_format_init on each of conts, for each outcome of the allocation
\* of the parser context
OpenAll(conts) ==
    [alloc_parser \in BOOLEAN |->
       [src \in DOMAIN conts |->
          gfx_aaf_format_init(conts[src], alloc_parser, 0)]]
Opened == OpenAll(Containers)

\* the frame_data pointers gfx_aaf_format_get_frame_data hands out
FrameDataOffsets(parser) ==
    IF parser = NULL THEN {}
    ELSE {gfx_aaf_format_get_frame_data(parser, i).off :
            i \in 0..(parser.total_frames - 1)}

\* the memory from each frame_data pointer on
FramesOf(conts) ==
    LET frames(opened) ==
            [src \in DOMAIN conts |->
               [off \in FrameDataOffsets(opened[src].parser) |->
                  From(conts[src], off)]]
    IN  frames(OpenAll(conts)[TRUE])
FrameBytes == FramesOf(Containers)

\* gfx_aaf_parse_header at each frame_data pointer, for each outcome of its
\* two allocations (block_len, palette)
ParseAll(frames) ==
    [src \in DOMAIN frames |->
       [off \in DOMAIN frames[src] |->
          [alloc_len \in BOOLEAN |->
             [alloc_pal \in BOOLEAN |->
                gfx_aaf_parse_header(frames[src][off], alloc_len,
                                     alloc_pal, 0)]]]]
ParsedHeaders == ParseAll(FrameBytes)

\* ------------------------------------------------------------ compositor

\* dest_buf[idx] = v.  dest holds the request's (x2-x1) * (y2-y1) pixels and,
\* behind them, the pixels of the memory that follows the buffer.
Wr(dest, idx, v) ==
    IF idx >= 0 /\ idx < Len(dest) THEN [dest EXCEPT ![idx + 1] = v] ELSE dest

\* a palette slot resolved anew at every use
ResolveAlways(cache, header, index, swap) ==
    [cache EXCEPT ![index + 1] = gfx_aaf_parse_palette(header, index, swap)]

\* lines 473-476, 491-494, 538-541: resolve a palette slot on first use
Resolve(cache, header, index, swap) ==
    IF cache[index + 1] = PALETTE_SENTINEL
    THEN [cache EXCEPT ![index + 1] = gfx_aaf_parse_palette(header, index, swap)]
    ELSE cache

\* lines 483-489 and their copies: the mirrored store of one pixel.
\* a: the renderer's arguments; base: the index of dest_buf[0] in dest.
MirrorWr(dest, a, width, y, x, v) ==
    LET mirror_x == width + a.mirror_offset + width - 1 - x
    IN  IF a.mirror_enabled /\ mirror_x >= 0
           /\ (a.dest_x_offset + mirror_x) < a.dest_stride
        THEN Wr(dest, a.base + y * a.dest_stride + mirror_x, v)
        ELSE dest

\* gfx_anim_render_8bit_pixels, pixel k of the clip in row-major order
RECURSIVE Render8(_, _, _)
Render8(st, a, k) ==
    LET w == a.clip_w
        h == a.clip_h
        y == k \div w
        x == k % w
        index == Rd(a.src, a.src_base + y * a.src_stride + x, a.tail)
        cache == Resolve(st.cache, a.header, index, a.swap)
        color_val == cache[index + 1] % U16
        d1 == Wr(st.dest, a.base + y * a.dest_stride + x, color_val)
        d2 == MirrorWr(d1, a, a.header.width, y, x, color_val)
    IN  IF k >= w * h THEN st
        ELSE Render8([dest |-> d2, cache |-> cache], a, k + 1)

\* gfx_anim_render_4bit_pixels, pixel pair k of the clip (x advances by 2)
RECURSIVE Render4(_, _, _)
Render4(st, a, k) ==
    LET pairs == (a.clip_w + 1) \div 2
        h == a.clip_h
        y == k \div pairs
        x == 2 * (k % pairs)
        packed == Rd(a.src, a.src_base + (y * a.src_stride) \div 2 + (x \div 2),
                     a.tail)
        index1 == packed \div 16
        index2 == packed % 16
        c1 == Resolve(st.cache, a.header, index1, a.swap)
        color_val1 == c1[index1 + 1] % U16
        d1 == Wr(st.dest, a.base + y * a.dest_stride + x, color_val1)
        d2 == MirrorWr(d1, a, a.header.width, y, x, color_val1)
        c2 == Resolve(c1, a.header, index2, a.swap)
        color_val2 == c2[index2 + 1] % U16
        d3 == Wr(d2, a.base + y * a.dest_stride + x + 1, color_val2)
        \* line 504 stores color_val1 at the mirror of x + 1
        d4 == MirrorWr(d3, a, a.header.width, y, x + 1, color_val1)
    IN  IF k >= pairs * h THEN st
        ELSE Render4([dest |-> d4, cache |-> c2], a, k + 1)

\* gfx_anim_render_24bit_pixels: the source is read as uint16_t
RECURSIVE Render24(_, _, _)
Render24(st, a, k) ==
    LET w == a.clip_w
        h == a.clip_h
        y == k \div w
        x == k % w
        at == a.src_base + 2 * (y * a.src_stride + x)
        v == Rd(a.src, at, a.tail) + 256 * Rd(a.src, at + 1, a.tail)
        d1 == Wr(st.dest, a.base + y * a.dest_stride + x, v)
        d2 == MirrorWr(d1, a, a.src_stride, y, x, v)
    IN  IF k >= w * h THEN st
        ELSE Render24([dest |-> d2, cache |-> st.cache], a, k + 1)

\* ------------------------------------------------------------ draw

\* a decoder test that never uses the cached block
AlwaysDecode(block, last_block) == TRUE

\* lines 306-312: the cached block is not decoded again
NeedDecode(block, last_block) == block # last_block

\* a cache index that records the block whatever the decoder returned
LastBlockAlways(last_block, block, ret) == block

\* lines 308-311: last_block after a decode of `block` that returned `ret`
LastBlockAfter(last_block, block, ret) ==
    IF ret = "ESP_OK" THEN block ELSE last_block

\* what a log entry tells of the decoder when the cached block was used
NoDecode == [why |-> "none", hi |-> 0, tag |-> -1, huff |-> "none",
             off_tree |-> FALSE]

\* lines 273-363: the block loop from `block` on.
\* c: what the loop reads and does not change (header, data, offsets, the
\* request r, obj_x, obj_y, clip_object, swap, mirror, env).
\* acc: last_block, the decode buffer, the palette cache, dest, and log, one
\* entry per block that reached line 305.
RECURSIVE BlockLoop(_, _, _)
BlockLoop(acc, c, block) ==
    LET header == c.header
        width == header.width
        block_height == header.block_height
        block_start_y == block * block_height + c.obj_y
        block_end_y == (IF block = header.blocks - 1 THEN header.height
                        ELSE (block + 1) * block_height) + c.obj_y
        block_start_x == c.obj_x
        block_end_x == width + c.obj_x
        clip_block == [x1 |-> Max(c.clip_object.x1, block_start_x),
                       y1 |-> Max(c.clip_object.y1, block_start_y),
                       x2 |-> Min(c.clip_object.x2, block_end_x),
                       y2 |-> Min(c.clip_object.y2, block_end_y)]
        entry(d, how, is_composited, last_block, dest) ==
            [block |-> block, decode |-> how, why |-> d.why, hi |-> d.hi,
             tag |-> d.tag, huff |-> d.huff, off_tree |-> d.off_tree,
             composited |-> is_composited, clip |-> clip_block,
             last_block |-> last_block, dest |-> dest]
        \* lines 314-362 for the clip cb: the renderer arguments and the call
        render(cb, buf) ==
            LET src_offset_x == cb.x1 - block_start_x
                src_offset_y == cb.y1 - block_start_y
                dest_buffer_stride == c.r.x2 - c.r.x1
                dest_x_offset == cb.x1 - c.r.x1
                draw(st, a) ==
                    IF header.bit_depth = 4 THEN Render4(st, a, 0)
                    ELSE IF header.bit_depth = 8 THEN Render8(st, a, 0)
                    ELSE IF header.bit_depth = 24 THEN Render24(st, a, 0)
                    ELSE st
            IN  draw([dest |-> acc.dest, cache |-> acc.cache],
                     [src |-> buf,
                      src_base |->
                          IF header.bit_depth = 24
                          THEN src_offset_y * (width * 2) + src_offset_x * 2
                          ELSE IF header.bit_depth = 4
                          THEN src_offset_y * (width \div 2) + src_offset_x \div 2
                          ELSE src_offset_y * width + src_offset_x,
                      src_stride |-> width,
                      base |-> (cb.y1 - c.r.y1) * dest_buffer_stride
                               + dest_x_offset,
                      dest_stride |-> dest_buffer_stride,
                      header |-> header,
                      clip_w |-> cb.x2 - cb.x1,
                      clip_h |-> cb.y2 - cb.y1,
                      swap |-> c.swap,
                      mirror_enabled |-> c.mirror_enabled,
                      mirror_offset |-> c.mirror_offset,
                      dest_x_offset |-> dest_x_offset,
                      tail |-> c.env.tail])
        composited(last_block, buf, d, how, drawn) ==
            BlockLoop([last_block |-> last_block, buf |-> buf,
                       cache |-> drawn.cache, dest |-> drawn.dest,
                       log |-> Append(acc.log,
                                      entry(d, how, TRUE, last_block,
                                            drawn.dest))],
                      c, block + 1)
        \* lines 307-311: d is what gfx_anim_decode_block returned
        decoded(cb, d) ==
            IF d.ret # "ESP_OK"
            THEN BlockLoop([acc EXCEPT
                              !.buf = d.buf,
                              !.last_block = LastBlockAfter(@, block, d.ret),
                              !.log = Append(@, entry(d, "fail", FALSE,
                                                      LastBlockAfter(
                                                          acc.last_block, block,
                                                          d.ret),
                                                      acc.dest))],
                           c, block + 1)
            ELSE composited(LastBlockAfter(acc.last_block, block, d.ret), d.buf,
                            d, "ok", render(cb, d.buf))
        \* lines 291-312 for the clip cb
        clipped(cb) ==
            IF cb.x1 >= cb.x2 \/ cb.y1 >= cb.y2
            THEN BlockLoop(acc, c, block + 1)
            ELSE IF cb.x1 - block_start_x < 0 \/ cb.y1 - block_start_y < 0
                    \/ cb.x1 - block_start_x >= width
                    \/ cb.y1 - block_start_y >= block_height
            THEN BlockLoop(acc, c, block + 1)
            ELSE IF NeedDecode(block, acc.last_block)
            THEN decoded(cb, gfx_anim_decode_block(
                                 c.data, c.offsets, header, block, acc.buf,
                                 width, block_height, c.swap, c.env))
            ELSE composited(acc.last_block, acc.buf, NoDecode, "hit",
                            render(cb, acc.buf))
    IN  IF block >= header.blocks THEN acc ELSE clipped(clip_block)

\* the destination buffer a request hands in: (x2-x1) * (y2-y1) pixels of the
\* background colour bg, followed by DestSlack pixels of the memory behind it
DestSlack == 1
BlankDest(r, bg) ==
    Mem([k \in 1..((r.x2 - r.x1) * (r.y2 - r.y1) + DestSlack) |-> bg])

\* gfx_draw_animation from line 195 on, for the animation `an` = [file_desc,
\* frame, obj_x, obj_y, mirror_enabled, mirror_offset].
\* Result: drew (line 365 was reached), the frame info, dest and the log.
gfx_draw_animation(an, r, dest, swap_color, env) ==
    LET frame == an.frame
        header == frame.header
        none == [drew |-> FALSE, frame |-> frame, dest |-> dest, log |-> <<>>]
        clip_object == [x1 |-> Max(r.x1, an.obj_x),
                        y1 |-> Max(r.y1, an.obj_y),
                        x2 |-> Min(r.x2, an.obj_x + header.width),
                        y2 |-> Min(r.y2, an.obj_y + header.height)]
        result(acc) ==
            [drew |-> TRUE,
             frame |-> [frame EXCEPT !.last_block = acc.last_block,
                                     !.pixel_buffer = Ptr(acc.buf),
                                     !.color_palette =
                                         IF @ = NULL THEN NULL
                                         ELSE Ptr(acc.cache)],
             dest |-> acc.dest, log |-> acc.log]
        \* lines 273-363
        blocks(co) ==
            result(BlockLoop(
                [last_block |-> frame.last_block,
                 buf |-> frame.pixel_buffer.mem,
                 cache |-> IF frame.color_palette = NULL THEN <<>>
                           ELSE frame.color_palette.mem,
                 dest |-> dest, log |-> <<>>],
                [header |-> header,
                 data |-> FrameBytes[frame.frame_data.src][frame.frame_data.off],
                 offsets |-> frame.block_offsets.mem,
                 r |-> r, obj_x |-> an.obj_x, obj_y |-> an.obj_y,
                 clip_object |-> co, swap |-> swap_color,
                 mirror_enabled |-> an.mirror_enabled,
                 mirror_offset |-> an.mirror_offset, env |-> env],
                0))
    IN  IF an.file_desc = NULL THEN none
        ELSE IF frame.frame_data = NULL THEN none
        ELSE IF header.width = 0 THEN none
        ELSE IF frame.block_offsets = NULL \/ frame.pixel_buffer = NULL THEN none
        ELSE IF clip_object.x1 >= clip_object.x2
                \/ clip_object.y1 >= clip_object.y2
        THEN none
        ELSE blocks(clip_object)

\* ------------------------------------------------------------ state

VARIABLES
    anim,      \* gfx_anim_property_t: file_desc, start_frame, end_frame,
               \* current_frame, repeat, is_playing, mirror_enabled,
               \* mirror_offset and frame (gfx_anim_frame_info_t)
    obj,       \* gfx_obj_t: x, y, is_dirty
    lastDraw,  \* the last gfx_draw_animation call: its request, result buffer
               \* and block log, last_block and decodedFrom as it found them;
               \* NULL when another operation came after it
    prevDraw,  \* when the call before lastDraw came right before it and took
               \* exactly one block to the decoder test: that block, how it
               \* was served and the number of gfx_anim_decode_block calls;
               \* else NULL
    probe,     \* observation only: decodedFrom (the frame the pixel buffer was
               \* last decoded from), rendered (a block of the frame bound by
               \* the last gfx_anim_preprocess_frame was decoded or composited),
               \* prepOk (that call returned true), dropped (that call
               \* found a block cached and was the last operation but for
               \* playback control)
    call       \* a call of one decoder function on its own: its arguments
               \* and, once it returned, its result; NULL in the animation runs

vars == <<anim, obj, lastDraw, prevDraw, probe, call>>

\* bytes that uninitialised or foreign memory may hold
UninitBytes == {0, 170}

\* gfx_anim_frame_info_t as gfx_anim_create leaves it (lines 552-564)
FrameInit ==
    [header |-> ZeroHeader, frame_data |-> NULL, frame_size |-> 0,
     block_offsets |-> NULL, pixel_buffer |-> NULL, color_palette |-> NULL,
     last_block |-> -1]

\* gfx_anim_property_t as gfx_anim_create leaves it
gfx_anim_create ==
    [file_desc |-> NULL, start_frame |-> 0, end_frame |-> 0,
     current_frame |-> 0, repeat |-> TRUE, is_playing |-> FALSE,
     mirror_enabled |-> FALSE, mirror_offset |-> 0, frame |-> FrameInit]

\* the state after gfx_anim_create
AnimInit ==
    /\ anim = gfx_anim_create
    /\ obj = [x |-> 0, y |-> 0, is_dirty |-> FALSE]
    /\ lastDraw = NULL
    /\ prevDraw = NULL
    /\ probe = [decodedFrom |-> NULL, rendered |-> FALSE, prepOk |-> FALSE,
                dropped |-> FALSE]

Init == AnimInit /\ call = NULL

\* lines 63-66 and gfx_obj.c lines 602-605: the parsed header is released
FreeHeaderIfValid(header) ==
    IF header.width > 0 THEN ZeroHeader ELSE header

\* a release of the frame info that keeps the cache index
KeepLastBlock(last_block) == last_block

\* line 85: the value gfx_anim_free_frame_info leaves in last_block
LastBlockAfterFree(last_block) == -1

\* gfx_anim_free_frame_info
gfx_anim_free_frame_info(frame) ==
    [header |-> FreeHeaderIfValid(frame.header),
     frame_data |-> NULL, frame_size |-> 0,
     block_offsets |-> NULL, pixel_buffer |-> NULL, color_palette |-> NULL,
     last_block |-> LastBlockAfterFree(frame.last_block)]

\* lines 129-136: the size of the decode buffer
PixelBufferSize(header) ==
    IF header.bit_depth = 4
    THEN (header.width * (header.block_height + (header.block_height % 2))) \div 2
    ELSE IF header.bit_depth = 8 THEN header.width * header.block_height
    ELSE header.width * header.block_height * 2

\* a gfx_anim_preprocess_frame whose failing allocation is reported but
\* leaves the frame info as a successful call does
PreprocessKeepsBuffers(an, failAt, fill) ==
    LET f0 == gfx_anim_free_frame_info(an.frame)
        parsed(f1, p) ==
            IF p.format # "SBMP"
            THEN [ret |-> FALSE, frame |-> [f1 EXCEPT !.header = p.header]]
            ELSE [ret |-> failAt = "none",
                  frame |->
                    [f1 EXCEPT
                       !.header = p.header,
                       !.block_offsets =
                           Ptr(gfx_aaf_calculate_offsets(p.header)),
                       !.pixel_buffer =
                           Ptr(Mem([k \in 1..PixelBufferSize(p.header) |->
                                      fill])),
                       !.color_palette =
                           IF p.header.bit_depth = 24 THEN NULL
                           ELSE Ptr(Mem([k \in 1..Pow2(p.header.bit_depth) |->
                                           PALETTE_SENTINEL]))]]
        bound(frame_data) ==
            IF frame_data = NULL THEN [ret |-> FALSE, frame |-> f0]
            ELSE parsed([f0 EXCEPT
                           !.frame_data = [src |-> an.file_desc.src,
                                           off |-> frame_data.off],
                           !.frame_size =
                               gfx_aaf_format_get_frame_size(an.file_desc,
                                                             an.current_frame)],
                        ParsedHeaders[an.file_desc.src][frame_data.off][
                            TRUE][TRUE])
    IN  bound(gfx_aaf_format_get_frame_data(an.file_desc, an.current_frame))

\* gfx_anim_preprocess_frame.  failAt names the allocation that fails, fill
\* the byte the fresh decode buffer happens to hold.
\* Result: ret and the frame info.
gfx_anim_preprocess_frame(an, failAt, fill) ==
    LET f0 == gfx_anim_free_frame_info(an.frame)
        \* lines 118-174: p is what gfx_aaf_parse_header returned
        parsed(f1, p) ==
            LET header == p.header
                f2 == [f1 EXCEPT !.header = header]
                color_depth == IF header.bit_depth = 4 THEN 16
                               ELSE IF header.bit_depth = 8 THEN 256 ELSE 0
            IN  IF p.format # "SBMP" THEN [ret |-> FALSE, frame |-> f2]
                ELSE IF failAt = "offsets" THEN [ret |-> FALSE, frame |-> f2]
                ELSE IF failAt = "pixel" THEN [ret |-> FALSE, frame |-> f2]
                ELSE IF color_depth # 0 /\ failAt = "cache"
                THEN [ret |-> FALSE, frame |-> f2]
                ELSE [ret |-> TRUE,
                      frame |->
                        [f2 EXCEPT
                           !.block_offsets =
                               Ptr(gfx_aaf_calculate_offsets(header)),
                           !.pixel_buffer =
                               Ptr(Mem([k \in 1..PixelBufferSize(header) |->
                                          fill])),
                           !.color_palette =
                               IF color_depth # 0
                               THEN Ptr(Mem([k \in 1..color_depth |->
                                               PALETTE_SENTINEL]))
                               ELSE NULL]]
        \* lines 104-117: frame_data is what gfx_aaf_format_get_frame_data
        \* returned
        bound(frame_data) ==
            IF frame_data = NULL THEN [ret |-> FALSE, frame |-> f0]
            ELSE parsed([f0 EXCEPT
                           !.frame_data = [src |-> an.file_desc.src,
                                           off |-> frame_data.off],
                           !.frame_size =
                               gfx_aaf_format_get_frame_size(an.file_desc,
                                                             an.current_frame)],
                        ParsedHeaders[an.file_desc.src][frame_data.off][
                            failAt # "block_len"][failAt # "palette"])
    IN  bound(gfx_aaf_format_get_frame_data(an.file_desc, an.current_frame))

\* ------------------------------------------------------------ actions

\* the allocation of gfx_anim_preprocess_frame that fails, and the byte a
\* fresh decode buffer holds (it matters only when every allocation succeeds)
PreprocessEnvs ==
    {<<"none", fill>> : fill \in UninitBytes}
    \cup {<<failAt, 0>> : failAt \in {"block_len", "palette", "offsets",
                                      "pixel", "cache"}}

\* the renderer calls gfx_anim_preprocess_frame for an animation with a source
Preprocess ==
    /\ call = NULL
    /\ anim.file_desc # NULL
    /\ \E e \in PreprocessEnvs :
         \E res \in {gfx_anim_preprocess_frame(anim, e[1], e[2])} :
            /\ anim' = [anim EXCEPT !.frame = res.frame]
            /\ probe' = [decodedFrom |-> NULL, rendered |-> FALSE,
                         prepOk |-> res.ret,
                         dropped |-> anim.frame.last_block >= 0]
    /\ lastDraw' = NULL
    /\ prevDraw' = NULL
    /\ UNCHANGED <<obj, call>>

\* gfx_anim_stop (lines 727-732)
gfx_anim_stop(an) == [an EXCEPT !.is_playing = FALSE]

\* gfx_anim_set_src (lines 590-628): src names the container handed in,
\* opened is what gfx_aaf_format_init returned for it
gfx_anim_set_src(an, src, opened) ==
    LET a1 == IF an.is_playing THEN gfx_anim_stop(an) ELSE an
        a2 == [a1 EXCEPT !.frame.header = FreeHeaderIfValid(@),
                         !.frame.frame_data = NULL,
                         !.frame.frame_size = 0]
        new_desc == opened.parser
    IN  IF new_desc = NULL THEN a2
        ELSE [a2 EXCEPT
                !.file_desc = [src |-> src,
                               total_frames |-> new_desc.total_frames,
                               entries |-> new_desc.entries],
                !.start_frame = 0,
                !.current_frame = 0,
                !.end_frame = gfx_aaf_format_get_total_frames(new_desc) - 1]

\* the containers handed to gfx_anim_set_src and whether the allocation of
\* the parser context succeeds (when it does not, the container is not read)
SetSrcEnvs == ({TRUE} \X DOMAIN Opened[TRUE]) \cup {<<FALSE, 1>>}

\* gfx_anim_set_src with one of the containers of envs
SetSrcFrom(envs) ==
    /\ call = NULL
    /\ \E b \in envs :
         anim' = gfx_anim_set_src(anim, b[2], Opened[b[1]][b[2]])
    /\ probe' = [probe EXCEPT !.rendered = FALSE, !.prepOk = FALSE,
                              !.dropped = FALSE]
    /\ lastDraw' = NULL
    /\ prevDraw' = NULL
    /\ UNCHANGED <<obj, call>>

SetSrc == SetSrcFrom(SetSrcEnvs)

\* gfx_anim_set_segment (gfx_obj.c lines 633-672) for an animation with a
\* source; fps only sets the period of the timer
gfx_anim_set_segment(an, start, end, repeat) ==
    LET total_frames == gfx_aaf_format_get_total_frames(an.file_desc)
    IN  [an EXCEPT !.start_frame = start,
                   !.end_frame = IF end > total_frames - 1
                                 THEN total_frames - 1 ELSE end,
                   !.current_frame = start,
                   !.repeat = repeat]

\* the frame numbers handed to gfx_anim_set_segment
MaxSegmentFrame == 2

\* gfx_anim_set_segment (it asserts on an animation without a source)
SetSegment ==
    /\ call = NULL
    /\ anim.file_desc # NULL
    /\ \E start \in 0..MaxSegmentFrame, end \in 0..MaxSegmentFrame,
          repeat \in BOOLEAN :
         anim' = gfx_anim_set_segment(anim, start, end, repeat)
    /\ lastDraw' = NULL
    /\ prevDraw' = NULL
    /\ UNCHANGED <<obj, probe, call>>

\* a start that rewinds an animation that is playing
StartRewinds(an) ==
    [an EXCEPT !.is_playing = TRUE, !.current_frame = an.start_frame]

\* gfx_anim_start (lines 696-706) for an animation with a source
gfx_anim_start(an) ==
    IF an.is_playing THEN an
    ELSE [an EXCEPT !.is_playing = TRUE, !.current_frame = an.start_frame]

\* gfx_anim_start (without a source it returns ESP_ERR_INVALID_STATE)
Start ==
    /\ call = NULL
    /\ anim.file_desc # NULL
    /\ anim' = gfx_anim_start(anim)
    /\ lastDraw' = NULL
    /\ prevDraw' = NULL
    /\ UNCHANGED <<obj, probe, call>>

\* gfx_anim_stop
Stop ==
    /\ call = NULL
    /\ anim' = gfx_anim_stop(anim)
    /\ lastDraw' = NULL
    /\ prevDraw' = NULL
    /\ UNCHANGED <<obj, probe, call>>

\* gfx_anim_timer_callback
TimerTick ==
    /\ call = NULL
    /\ LET next == anim.current_frame + 1
       IN  IF ~anim.is_playing THEN UNCHANGED <<anim, obj>>
           ELSE IF next > anim.end_frame
           THEN IF anim.repeat
                THEN /\ anim' = [anim EXCEPT !.current_frame = anim.start_frame]
                     /\ obj' = [obj EXCEPT !.is_dirty = TRUE]
                ELSE /\ anim' = [anim EXCEPT !.current_frame = next,
                                             !.is_playing = FALSE]
                     /\ UNCHANGED obj
           ELSE /\ anim' = [anim EXCEPT !.current_frame = next]
                /\ obj' = [obj EXCEPT !.is_dirty = TRUE]
    /\ lastDraw' = NULL
    /\ prevDraw' = NULL
    /\ UNCHANGED <<probe, call>>

\* the buffers a frame info points to
Owned(frame) ==
    {k \in {"block_len", "palette"} : frame.header[k] # NULL}
    \cup {k \in {"block_offsets", "pixel_buffer", "color_palette"} :
            frame[k] # NULL}

\* gfx_obj_delete for an animation object (lines 451-476): the animation is
\* stopped, the frame info and the container index are released, and the
\* property and the object are freed; `remaining` are the buffers nothing
\* points to any more and nothing freed
gfx_obj_delete(an) ==
    LET stopped == IF an.is_playing THEN gfx_anim_stop(an) ELSE an
        freed(frame) ==
            [anim |-> [stopped EXCEPT !.frame = frame, !.file_desc = NULL],
             remaining |-> Owned(frame)]
    IN  freed(gfx_anim_free_frame_info(stopped.frame))

\* gfx_obj_delete: no operation on the object follows it
Delete ==
    /\ call = NULL
    /\ \E res \in {gfx_obj_delete(anim)} :
         /\ anim' = res.anim
         /\ call' = [fn |-> "gfx_obj_delete",
                     result |-> [remaining |-> res.remaining]]
    /\ lastDraw' = NULL
    /\ prevDraw' = NULL
    /\ UNCHANGED <<obj, probe>>

\* the draw requests: the whole frame, each block, the left column
Requests ==
    {[x1 |-> 0, y1 |-> 0, x2 |-> FrameWidth, y2 |-> FrameHeight],
     [x1 |-> 0, y1 |-> 0, x2 |-> FrameWidth, y2 |-> FrameBlockHeight],
     [x1 |-> 0, y1 |-> FrameBlockHeight, x2 |-> FrameWidth, y2 |-> FrameHeight],
     [x1 |-> 0, y1 |-> 0, x2 |-> 1, y2 |-> FrameHeight]}

\* what a draw call does not decide: the byte read outside the modelled
\* memory, and whether the scratch allocations of the block decoder succeed
DrawEnvs ==
    {[tail |-> t, alloc_huff |-> TRUE, alloc_jpeg |-> TRUE] : t \in UninitBytes}
    \cup {[tail |-> 0, alloc_huff |-> FALSE, alloc_jpeg |-> FALSE]}

\* the display's byte order flag (the renderer passes it to every draw call)
SwapColor == FALSE

\* the colour the caller clears the destination buffer to
BgColor == 33

\* the blocks a draw call took to line 305, its gfx_anim_decode_block calls,
\* and the blocks whose decode failed
Touched(d) == {d.log[i].block : i \in 1..Len(d.log)}
Decodes(d) == Cardinality({i \in 1..Len(d.log) : d.log[i].decode # "hit"})
Failed(d) == {d.log[i].block : i \in {j \in 1..Len(d.log) :
                                          d.log[j].decode = "fail"}}
Succeeded(d) == {d.log[i].block : i \in {j \in 1..Len(d.log) :
                                             d.log[j].decode = "ok"}}

\* gfx_draw_animation
Draw ==
    /\ call = NULL
    /\ \E r \in Requests, env \in DrawEnvs :
         \E d \in {gfx_draw_animation(
                       [file_desc |-> anim.file_desc, frame |-> anim.frame,
                        obj_x |-> obj.x, obj_y |-> obj.y,
                        mirror_enabled |-> anim.mirror_enabled,
                        mirror_offset |-> anim.mirror_offset],
                       r, BlankDest(r, BgColor), SwapColor, env)} :
            /\ anim' = [anim EXCEPT !.frame = d.frame]
            /\ obj' = IF d.drew THEN [obj EXCEPT !.is_dirty = FALSE] ELSE obj
            /\ lastDraw' = [r |-> r, drew |-> d.drew, dest |-> d.dest,
                            log |-> d.log, before |-> anim.frame.last_block,
                            from |-> probe.decodedFrom]
            /\ probe' = [probe EXCEPT
                           !.decodedFrom = IF Succeeded(d) # {}
                                           THEN anim.frame.frame_data ELSE @,
                           !.rendered = @ \/ d.log # <<>>,
                           !.dropped = FALSE]
    /\ prevDraw' = IF lastDraw = NULL THEN NULL
                   ELSE IF Len(lastDraw.log) # 1 THEN NULL
                   ELSE [block |-> lastDraw.log[1].block,
                         decode |-> lastDraw.log[1].decode,
                         decodes |-> Decodes(lastDraw)]
    /\ UNCHANGED call

Next == SetSrc \/ Preprocess \/ Start \/ Stop \/ TimerTick \/ Draw \/ Delete

Spec == Init /\ [][Next]_vars

\* ------------------------------------------------------------ playback

\* The animation under the whole playback interface: gfx_anim_set_segment is
\* added to the operations above, on three of the containers (ContPixels,
\* ContRedirect and the refused ContBadMagic) and the failure to allocate the
\* parser context.
PlaybackSrcEnvs == {<<TRUE, 11>>, <<TRUE, 10>>, <<TRUE, 6>>, <<FALSE, 1>>}

NextPlayback ==
    \/ SetSrcFrom(PlaybackSrcEnvs) \/ SetSegment \/ Start \/ Stop \/ TimerTick
    \/ Preprocess \/ Draw

SpecPlayback == Init /\ [][NextPlayback]_vars

\* Playback left to the timer: the animation has a source and a segment
\* (gfx_anim_set_src of ContRedirect or ContPixels, then
\* gfx_anim_set_segment), is started or not, and from then on only the timer
\* callback, gfx_anim_start and gfx_anim_stop run.  The timer is periodic:
\* its callback keeps being called.
InitTicks ==
    /\ \E src \in {10, 11}, start \in 0..MaxSegmentFrame,
          end \in 0..MaxSegmentFrame, repeat \in BOOLEAN,
          started \in BOOLEAN :
         \E a \in {gfx_anim_set_segment(
                       gfx_anim_set_src(gfx_anim_create, src,
                                        Opened[TRUE][src]),
                       start, end, repeat)} :
            anim = IF started THEN gfx_anim_start(a) ELSE a
    /\ obj = [x |-> 0, y |-> 0, is_dirty |-> FALSE]
    /\ lastDraw = NULL
    /\ prevDraw = NULL
    /\ probe = [decodedFrom |-> NULL, rendered |-> FALSE, prepOk |-> FALSE,
                dropped |-> FALSE]
    /\ call = NULL

NextTicks == TimerTick \/ Start \/ Stop

SpecTicks == InitTicks /\ [][NextTicks]_vars /\ WF_vars(TimerTick)

\* ------------------------------------------------------------ decoder calls

\* The decoder functions called on their own, on inputs drawn from bounded
\* sets: `call` holds the arguments and, once the function returned, its
\* result.

\* the longest RLE input in bytes, its largest byte, the largest output
\* capacity, and the bytes of the output buffer behind the capacity
MaxRleLen == 4
MaxRleByte == 3
MaxRleOut == 3
RleSlack == 1
\* the largest padding of a Huffman table and the longest payload in bytes
MaxPadding == 7
MaxHuffLen == 1

\* the byte sequences of length 0..n over S
Seqs(S, n) == UNION {{Mem(f) : f \in [1..k -> S]} : k \in 0..n}

\* a buffer of n bytes nothing was stored in yet
Fresh(n) == Mem([k \in 1..n |-> 255])

RleInputs == Seqs(0..MaxRleByte, MaxRleLen)

RleCalls ==
    {[fn |-> "gfx_aaf_rle_decode", input |-> i, input_len |-> Len(i),
      output |-> Fresh(cap + RleSlack), output_len |-> cap, tail |-> t,
      result |-> NULL] :
        i \in RleInputs, cap \in 0..MaxRleOut, t \in UninitBytes}

\* Huffman blocks: a two-symbol table with every node (Dict2) or with the
\* path "11" missing (DictOpen), a payload, and a dictionary length that is
\* right or exceeds the block
HuffDicts ==
    {Dict2(pad, 1, 2) : pad \in 0..MaxPadding}
    \cup {DictOpen(pad, 1, 2) : pad \in 0..MaxPadding}
HuffPayloads == Seqs({0, 64, 96, 144, 255}, MaxHuffLen)
HuffBuffers(tag) ==
    {<<tag>> \o LE16(Len(d) + extra) \o d \o y :
        d \in HuffDicts, y \in HuffPayloads, extra \in {0, 200}}

\* blocks cut short: the tag alone, the tag and half of the dictionary
\* length, and a table whose last triple lacks its code byte (with one or two
\* payload bytes behind it)
HuffTruncated ==
    {<<GFX_AAF_ENCODING_HUFFMAN>>, <<GFX_AAF_ENCODING_HUFFMAN, 0>>}
    \cup {<<GFX_AAF_ENCODING_HUFFMAN>> \o LE16(Len(d)) \o d \o y :
            d \in {<<0, 1, 1>>, <<0, 1, 1, 0, 2, 2>>},
            y \in HuffPayloads \ {<<>>}}

HuffmanCalls ==
    {[fn |-> "gfx_aaf_huffman_decode", buffer |-> b, buflen |-> Len(b),
      tail |-> t, result |-> NULL] :
        b \in HuffBuffers(GFX_AAF_ENCODING_HUFFMAN) \cup HuffTruncated,
        t \in UninitBytes}

\* the blocks handed to gfx_anim_decode_block
Blocks ==
    {RleFull(1), RleRow(2), RleOverflow, UnknownTag, HuffRle(5), HuffRleRow(5),
     HuffRleOdd, HuffOffTree, HuffDictTooLong, HuffNoPayload, HuffTooLong,
     HuffDirect(7, 8), HuffDirectShort, JpegFull, JpegRow, JpegFails}
    \cup {MkRle(i) : i \in RleInputs}
    \cup HuffBuffers(GFX_AAF_ENCODING_HUFFMAN)
    \cup HuffBuffers(GFX_AAF_ENCODING_HUFFMAN_DIRECT)

BlockCalls ==
    {[fn |-> "gfx_anim_decode_block", block_data |-> b,
      width |-> FrameWidth, block_height |-> FrameBlockHeight,
      decode_buffer |->
          Fresh(PixelBufferSize([bit_depth |-> depth, width |-> FrameWidth,
                                 block_height |-> FrameBlockHeight])),
      env |-> e, result |-> NULL] :
        b \in Blocks, depth \in {4, 8, 24}, e \in DrawEnvs}

\* containers for gfx_aaf_format_init: ContJpeg with any of its magic byte,
\* one byte of "AAF", the checksum (a payload byte or the stored sum) and
\* the magic of one frame changed
Damages ==
    [magic : BOOLEAN, string : 0..3, checksum : {"none", "payload", "stored"},
     frame : {-1, 0, 1}]

Bump(cont, at) == Damage(cont, at, (Rd(cont, at, 0) + 1) % 256)

Damaged(dmg) ==
    LET magic(c) == IF dmg.magic THEN Damage(c, 0, 136) ELSE c
        string(c) == IF dmg.string > 0 THEN Damage(c, dmg.string, 66) ELSE c
        checksum(c) == IF dmg.checksum = "payload" THEN Bump(c, Len(c) - 1)
                       ELSE IF dmg.checksum = "stored" THEN Bump(c, 8)
                       ELSE c
        frame(c) == IF dmg.frame >= 0 THEN MoveUnit(c, FrameMagicAt(c, dmg.frame))
                    ELSE c
    IN  magic(string(checksum(frame(ContJpeg))))

InitCalls ==
    {[fn |-> "gfx_aaf_format_init", damage |-> dmg, data |-> Damaged(dmg),
      alloc_parser |-> a, result |-> NULL] :
        dmg \in Damages, a \in BOOLEAN}

\* the animations drawn with the mirror enabled: a frame of a valid container
\* bound by gfx_anim_preprocess_frame, a mirror offset, and a request of one
\* row of blocks wide enough for the frame and its mirrored copy
MaxMirrorOffset == 1
MirrorCalls ==
    {[fn |-> "gfx_draw_animation", src |-> s, current_frame |-> i,
      mirror_offset |-> m, env |-> e, result |-> NULL] :
        s \in 1..5, i \in 0..1, m \in 0..MaxMirrorOffset, e \in DrawEnvs}

\* containers of 1..MaxFrames frames, each a redirect frame, a split-bitmap
\* frame or bytes with the tag "_X", and the index of a frame asked for,
\* up to one past the first index that is out of range
MaxFrames == 2
LookupCalls ==
    {[fn |-> "gfx_aaf_format_get_frame_data", frames |-> fs, index |-> i,
      result |-> NULL] :
        fs \in Seqs({MkFrameR(<<97>>), Frame24(JpegRow, JpegRow),
                     <<95, 88, 7>>}, MaxFrames) \ {<<>>},
        i \in 0..(MaxFrames + 1)}

\* frame headers for gfx_aaf_parse_header: a 2-byte tag, a bit-depth byte,
\* a width, a block count (0..MaxBlocks, or ManyBlocks) with block i of
\* length i + 2, and the outcomes of the two allocations
MaxBlocks == 2
ManyBlocks == 16380
HeaderCalls ==
    {[fn |-> "gfx_aaf_parse_header", tag |-> t, depth |-> d, blocks |-> n,
      data |-> t \o <<1, 49, 46, 48, 0, 0, 0, d>> \o LE16(w) \o LE16(3)
               \o LE16(n) \o LE16(2)
               \o (IF n > MaxBlocks THEN <<>>
                   ELSE Concat([i \in 1..n |-> LE32(i + 2)])),
      alloc_len |-> al, alloc_pal |-> ap, result |-> NULL] :
        t \in {TagS, TagR, <<95, 0>>, <<83, 95>>, <<0, 0>>, <<95, 84>>},
        d \in {0, 1, 4, 8, 16, 24, 32}, w \in 1..2,
        n \in (0..MaxBlocks) \cup {ManyBlocks}, al \in BOOLEAN, ap \in BOOLEAN}

\* Huffman blocks packed from a message: a prefix code (value, code bits per
\* symbol), a message of 0..MaxMsgLen symbols, and the value of the padding
\* bits.  The table is byte 0 = padding, then per symbol the value, the code
\* length and the code bits right-aligned in (length + 7) / 8 bytes,
\* big-endian; the payload is the message's code bits, first bit in bit 7.
MaxMsgLen == 4
PrefixCodes ==
    {<<<<7, <<0>>>>, <<9, <<1>>>>>>,
     <<<<7, <<0>>>>, <<9, <<1, 0>>>>, <<11, <<1, 1>>>>>>,
     <<<<0, <<0, 0>>>>, <<255, <<0, 1>>>>, <<9, <<1, 0>>>>, <<7, <<1, 1>>>>>>,
     <<<<7, <<1>>>>, <<9, <<0, 1, 0, 0, 0, 0, 0, 0, 1>>>>>>}
RECURSIVE BitsToInt(_)
BitsToInt(bits) ==
    IF bits = <<>> THEN 0
    ELSE 2 * BitsToInt(SubSeq(bits, 1, Len(bits) - 1)) + bits[Len(bits)]
HuffTable(code, padding) ==
    <<padding>>
    \o Concat([i \in 1..Len(code) |->
                 <<code[i][1], Len(code[i][2])>>
                 \o [k \in 1..((Len(code[i][2]) + 7) \div 8) |->
                       (BitsToInt(code[i][2])
                        \div Pow2(8 * ((Len(code[i][2]) + 7) \div 8 - k)))
                       % 256]])
HuffPack(bits, padding, padbit) ==
    [k \in 1..((Len(bits) + padding) \div 8) |->
       BitsToInt(SubSeq(bits \o [i \in 1..padding |-> padbit],
                        8 * k - 7, 8 * k))]
RoundTripCalls ==
    LET packed(code, msg, bits, padding, padbit) ==
            [fn |-> "gfx_aaf_huffman_decode",
             buffer |-> MkHuff(GFX_AAF_ENCODING_HUFFMAN,
                               HuffTable(code, padding),
                               HuffPack(bits, padding, padbit)),
             buflen |-> 3 + Len(HuffTable(code, padding))
                        + (Len(bits) + padding) \div 8,
             tail |-> 0,
             msg |-> [i \in 1..Len(msg) |-> code[msg[i]][1]],
             padding |-> padding, padbit |-> padbit,
             result |-> NULL]
        encoded(code, msg, bits, padbit) ==
            packed(code, msg, bits, (8 - (Len(bits) % 8)) % 8, padbit)
    IN  UNION {{encoded(code, msg,
                        Concat([i \in 1..Len(msg) |-> code[msg[i]][2]]),
                        padbit) :
                  msg \in Seqs(1..Len(code), MaxMsgLen), padbit \in 0..1} :
               code \in PrefixCodes}

\* RLE round trips: a byte stream given by its runs (count, value), with
\* counts from 1 to the largest a byte holds, encoded as the pairs of the
\* runs and decoded into a buffer of the stream's length (followed by
\* RleSlack bytes of the memory behind it)
MaxRuns == 2
RleRoundTripCalls ==
    LET trip(input, stream) ==
            [fn |-> "gfx_aaf_rle_decode", input |-> input,
             input_len |-> Len(input),
             output |-> Fresh(Len(stream) + RleSlack),
             output_len |-> Len(stream), tail |-> 0,
             stream |-> stream, result |-> NULL]
    IN  {trip(Concat([j \in 1..Len(runs) |-> <<runs[j][1], runs[j][2]>>]),
              Concat([j \in 1..Len(runs) |->
                         [k \in 1..runs[j][1] |-> runs[j][2]]])) :
            runs \in Seqs({1, 2, 255} \X {0, 7}, MaxRuns)}

\* palette lookups: a palette of MaxPaletteIndex + 1 entries of four bytes
\* (B, G, R, unused), the entry at `index` drawn from channel values around
\* the 5- and 6-bit truncation steps, the other entries a fixed colour
MaxPaletteIndex == 1
ChannelBytes == {0, 7, 8, 132, 251, 255}
PaletteCalls ==
    LET lookup(entry, index, swap) ==
            [fn |-> "gfx_aaf_parse_palette",
             header |-> [palette |->
                            Ptr(Concat([e \in 1..(MaxPaletteIndex + 1) |->
                                           IF e = index + 1 THEN entry
                                           ELSE <<16, 32, 64, 0>>]))],
             entry |-> entry, index |-> index, swap |-> swap,
             result |-> NULL]
    IN  {lookup(<<b, g, r, u>>, index, swap) :
            b \in ChannelBytes, g \in ChannelBytes, r \in ChannelBytes,
            u \in {0, 255}, index \in 0..MaxPaletteIndex, swap \in BOOLEAN}

\* single-byte changes of a container that opens: the byte at offset `at` of
\* the stored-length region behind the 16-byte head replaced by a different
\* value.  The containers are the two shortest ones that open (24-bit frames
\* without a palette, 4-bit frames with one); the new value is the old one
\* plus a delta modulo 256.
ByteDeltas == {1, 2, 128, 254, 255}
ByteChangeCalls ==
    LET change(cont, src, at, delta) ==
            [fn |-> "gfx_aaf_format_init",
             damage |-> [magic |-> FALSE, string |-> 0,
                         checksum |-> "payload", frame |-> -1],
             data |-> Damage(cont, at, (Rd(cont, at, 0) + delta) % 256),
             alloc_parser |-> TRUE, src |-> src, at |-> at,
             was |-> Rd(cont, at, 0), result |-> NULL]
        changes(conts, opened) ==
            UNION {{change(conts[src], src, at, delta) :
                      at \in GFX_AAF_TABLE_OFFSET..
                             (GFX_AAF_TABLE_OFFSET
                              + Rd32(conts[src], 12, 0) - 1),
                      delta \in ByteDeltas} :
                   src \in {s \in {4, 5} : opened[s].ret = "ESP_OK"}}
    IN  changes(Containers, Opened[TRUE])

\* draw requests against a placed object: a frame of ContPixels or (24-bit)
\* ContJpeg bound by gfx_anim_preprocess_frame, the object placed at
\* (obj_x, obj_y), and every request rectangle with corners in the area the
\* placed frame can cover and one column and row around it
MaxObjOffset == 1
DrawCalls ==
    {[fn |-> "gfx_draw_animation at", src |-> fr[1], current_frame |-> fr[2],
      obj_x |-> ox, obj_y |-> oy,
      r |-> [x1 |-> x1, y1 |-> y1, x2 |-> x2, y2 |-> y2], result |-> NULL] :
        fr \in {<<11, 0>>, <<11, 1>>, <<4, 0>>},
        ox \in 0..MaxObjOffset, oy \in 0..MaxObjOffset,
        x1 \in 0..(FrameWidth + MaxObjOffset),
        x2 \in 1..(FrameWidth + MaxObjOffset + 1),
        y1 \in 0..(FrameHeight + MaxObjOffset),
        y2 \in 1..(FrameHeight + MaxObjOffset + 1)}

\* two draw calls on one animation: frame `first_frame` of ContPixels is
\* bound and drawn for request r1 with the swap flag swap1; then, when
\* rebind >= 0, gfx_anim_preprocess_frame binds frame `rebind`; then the
\* bound frame is drawn for r2 with swap2
DrawTwiceCalls ==
    {[fn |-> "gfx_draw_animation twice", first_frame |-> f, r1 |-> r1,
      swap1 |-> s1, rebind |-> b, r2 |-> r2, swap2 |-> s2, result |-> NULL] :
        f \in 0..1, r1 \in Requests, s1 \in BOOLEAN, b \in -1..1,
        r2 \in Requests, s2 \in BOOLEAN}

InitDecoders ==
    /\ AnimInit
    /\ call \in RleCalls \cup HuffmanCalls \cup BlockCalls \cup InitCalls
                  \cup MirrorCalls \cup LookupCalls \cup HeaderCalls
                  \cup RoundTripCalls \cup RleRoundTripCalls
                 \cup PaletteCalls \cup ByteChangeCalls
                 \cup {c \in DrawCalls : c.r.x1 < c.r.x2 /\ c.r.y1 < c.r.y2}
                 \cup DrawTwiceCalls

\* the call of fn is pending / has returned
Pending(fn) == call # NULL /\ call.fn = fn /\ call.result = NULL
Returned(fn) == call # NULL /\ call.fn = fn /\ call.result # NULL

RleDecode ==
    /\ Pending("gfx_aaf_rle_decode")
    /\ call' = [call EXCEPT
                  !.result = gfx_aaf_rle_decode(call.input, call.input_len,
                                                call.output, call.output_len,
                                                call.tail)]
    /\ UNCHANGED <<anim, obj, lastDraw, prevDraw, probe>>

HuffmanDecode ==
    /\ Pending("gfx_aaf_huffman_decode")
    /\ call' = [call EXCEPT
                  !.result = gfx_aaf_huffman_decode(call.buffer, call.buflen,
                                                    call.tail)]
    /\ UNCHANGED <<anim, obj, lastDraw, prevDraw, probe>>

\* the block is block 0 of a frame whose data starts with it
DecodeBlock ==
    /\ Pending("gfx_anim_decode_block")
    /\ call' = [call EXCEPT
                  !.result = gfx_anim_decode_block(
                                 call.block_data, <<0>>,
                                 [block_len |-> Ptr(<<Len(call.block_data)>>)],
                                 0, call.decode_buffer, call.width,
                                 call.block_height, SwapColor, call.env)]
    /\ UNCHANGED <<anim, obj, lastDraw, prevDraw, probe>>

FormatInit ==
    /\ Pending("gfx_aaf_format_init")
    /\ call' = [call EXCEPT
                  !.result = gfx_aaf_format_init(call.data, call.alloc_parser,
                                                 0)]
    /\ UNCHANGED <<anim, obj, lastDraw, prevDraw, probe>>

\* gfx_draw_animation over the whole frame, the mirror enabled, into a
\* destination of 2 * width + mirror_offset columns
DrawMirrored ==
    /\ Pending("gfx_draw_animation")
    /\ \E a \in {gfx_anim_set_src(gfx_anim_create, call.src,
                                  Opened[TRUE][call.src])},
          r \in {[x1 |-> 0, y1 |-> 0,
                  x2 |-> 2 * FrameWidth + call.mirror_offset,
                  y2 |-> FrameHeight]} :
         \E f \in {gfx_anim_preprocess_frame(
                       [a EXCEPT !.current_frame = call.current_frame],
                       "none", 0).frame} :
            call' = [call EXCEPT
                       !.result = gfx_draw_animation(
                                      [file_desc |-> a.file_desc, frame |-> f,
                                       obj_x |-> 0, obj_y |-> 0,
                                       mirror_enabled |-> TRUE,
                                       mirror_offset |-> call.mirror_offset],
                                      r, BlankDest(r, BgColor), SwapColor,
                                      call.env)]
    /\ UNCHANGED <<anim, obj, lastDraw, prevDraw, probe>>

\* gfx_aaf_format_init on the container of call.frames, then
\* gfx_aaf_format_get_total_frames, the first two bytes at every frame's
\* gfx_aaf_format_get_frame_data, and for call.index
\* gfx_aaf_format_get_frame_data, gfx_aaf_format_get_frame_size and
\* gfx_anim_preprocess_frame (asked only when the index is out of range)
GetFrame ==
    /\ Pending("gfx_aaf_format_get_frame_data")
    /\ \E cont \in {MkContainer(call.frames)} :
         \E opened \in {gfx_aaf_format_init(cont, TRUE, 0)} :
            call' = [call EXCEPT
              !.result =
                IF opened.parser = NULL THEN [ret |-> opened.ret]
                ELSE [ret |-> opened.ret,
                      total_frames |->
                          gfx_aaf_format_get_total_frames(opened.parser),
                      tags |->
                          [i \in 1..opened.parser.total_frames |->
                             <<Rd(cont, gfx_aaf_format_get_frame_data(
                                            opened.parser, i - 1).off, 0),
                               Rd(cont, gfx_aaf_format_get_frame_data(
                                            opened.parser, i - 1).off + 1, 0)>>],
                      data |-> gfx_aaf_format_get_frame_data(opened.parser,
                                                             call.index),
                      size |-> gfx_aaf_format_get_frame_size(opened.parser,
                                                             call.index),
                      bytes |->
                          IF gfx_aaf_format_get_frame_data(opened.parser,
                                                           call.index) = NULL
                          THEN <<>>
                          ELSE From(cont, gfx_aaf_format_get_frame_data(
                                              opened.parser, call.index).off),
                      preprocess |->
                          IF opened.parser.total_frames > call.index THEN NULL
                          ELSE [ret |-> gfx_anim_preprocess_frame(
                                            [file_desc |-> opened.parser,
                                             current_frame |-> call.index,
                                             frame |-> FrameInit],
                                            "none", 0).ret]]]
    /\ UNCHANGED <<anim, obj, lastDraw, prevDraw, probe>>

\* gfx_aaf_parse_header and, for a split-bitmap header of a few blocks,
\* gfx_aaf_calculate_offsets
ParseHeader ==
    /\ Pending("gfx_aaf_parse_header")
    /\ \E p \in {gfx_aaf_parse_header(call.data, call.alloc_len,
                                      call.alloc_pal, 0)} :
         call' = [call EXCEPT
                    !.result =
                        [format |-> p.format, header |-> p.header,
                         offsets |->
                             IF p.format = "SBMP" /\ call.blocks <= MaxBlocks
                             THEN gfx_aaf_calculate_offsets(p.header)
                             ELSE <<>>]]
    /\ UNCHANGED <<anim, obj, lastDraw, prevDraw, probe>>

ParsePalette ==
    /\ Pending("gfx_aaf_parse_palette")
    /\ call' = [call EXCEPT
                  !.result = [full |-> gfx_aaf_parse_palette(call.header,
                                                             call.index,
                                                             call.swap)]]
    /\ UNCHANGED <<anim, obj, lastDraw, prevDraw, probe>>

\* gfx_draw_animation for the request call.r, on an object placed at
\* (call.obj_x, call.obj_y) whose frame gfx_anim_preprocess_frame has bound,
\* without mirror
DrawAt ==
    /\ Pending("gfx_draw_animation at")
    /\ \E a \in {gfx_anim_set_src(gfx_anim_create, call.src,
                                  Opened[TRUE][call.src])} :
         \E f \in {gfx_anim_preprocess_frame(
                       [a EXCEPT !.current_frame = call.current_frame],
                       "none", 0).frame} :
            call' = [call EXCEPT
                       !.result = gfx_draw_animation(
                                      [file_desc |-> a.file_desc, frame |-> f,
                                       obj_x |-> call.obj_x,
                                       obj_y |-> call.obj_y,
                                       mirror_enabled |-> FALSE,
                                       mirror_offset |-> 0],
                                      call.r, BlankDest(call.r, BgColor),
                                      SwapColor,
                                      [tail |-> 0, alloc_huff |-> TRUE,
                                       alloc_jpeg |-> TRUE])]
    /\ UNCHANGED <<anim, obj, lastDraw, prevDraw, probe>>

\* gfx_anim_preprocess_frame, gfx_draw_animation, optionally
\* gfx_anim_preprocess_frame again, gfx_draw_animation.  Result: the palette
\* cache after the first draw call, before the second and after it, and the
\* header bound at each draw call.
DrawTwice ==
    /\ Pending("gfx_draw_animation twice")
    /\ LET env == [tail |-> 0, alloc_huff |-> TRUE, alloc_jpeg |-> TRUE]
           placed(a, frame) ==
               [file_desc |-> a.file_desc, frame |-> frame,
                obj_x |-> 0, obj_y |-> 0,
                mirror_enabled |-> FALSE, mirror_offset |-> 0]
           second(f1, f2, d2) ==
               [first |-> f1.color_palette.mem, header1 |-> f1.header,
                between |-> f2.color_palette.mem, header2 |-> f2.header,
                second |-> d2.frame.color_palette.mem]
           rebound(a, f1, f2) ==
               second(f1, f2,
                      gfx_draw_animation(placed(a, f2), call.r2,
                                         BlankDest(call.r2, BgColor),
                                         call.swap2, env))
           first(a, d1) ==
               rebound(a, d1.frame,
                       IF call.rebind < 0 THEN d1.frame
                       ELSE gfx_anim_preprocess_frame(
                                [a EXCEPT !.current_frame = call.rebind,
                                          !.frame = d1.frame],
                                "none", 0).frame)
           bound(a, f0) ==
               first(a, gfx_draw_animation(placed(a, f0), call.r1,
                                           BlankDest(call.r1, BgColor),
                                           call.swap1, env))
           opened(a) ==
               bound(a, gfx_anim_preprocess_frame(
                            [a EXCEPT !.current_frame = call.first_frame],
                            "none", 0).frame)
       IN  call' = [call EXCEPT
                      !.result = opened(gfx_anim_set_src(
                                            gfx_anim_create, 11,
                                            Opened[TRUE][11]))]
    /\ UNCHANGED <<anim, obj, lastDraw, prevDraw, probe>>

NextDecoders ==
    \/ RleDecode \/ HuffmanDecode \/ DecodeBlock \/ FormatInit
    \/ DrawMirrored \/ GetFrame \/ ParseHeader
    \/ ParsePalette \/ DrawAt \/ DrawTwice

SpecDecoders == InitDecoders /\ [][NextDecoders]_vars

\* ------------------------------------------------------------ properties

\* the entries of the last draw call's log
LogIndex == IF lastDraw = NULL THEN {} ELSE 1..Len(lastDraw.log)

\* the last two draw calls came one right after the other and each took
\* exactly one block, the same one, to the decoder test
SameBlockTwice ==
    /\ prevDraw # NULL
    /\ Len(lastDraw.log) = 1
    /\ lastDraw.log[1].block = prevDraw.block

\* C1 as stated: two consecutive draw requests touching only block K, with
\* nothing between them, make exactly one gfx_anim_decode_block call in
\* total, and the second one is served from the cache.
C1_ExactlyOneDecode ==
    SameBlockTwice =>
        /\ prevDraw.decodes + Decodes(lastDraw) = 1
        /\ lastDraw.log[1].decode = "hit"

\* C1 as the code has it: when the first of two such requests leaves
\* last_block = K (it decoded block K, or found it cached), the second makes
\* no gfx_anim_decode_block call and only composites, so the pair makes at
\* most one call; when the first request's decode fails, last_block stays
\* different from K and the second request calls the decoder again.
C1_CacheReuse ==
    SameBlockTwice =>
        IF prevDraw.decode \in {"ok", "hit"}
        THEN /\ lastDraw.before = prevDraw.block
             /\ lastDraw.log[1].decode = "hit"
             /\ prevDraw.decodes + Decodes(lastDraw) <= 1
        ELSE /\ lastDraw.before # prevDraw.block
             /\ lastDraw.log[1].decode # "hit"
             /\ prevDraw.decodes + Decodes(lastDraw) = 2

\* a request decoded block K and the next one, for the same block, was
\* served from the cache
C1_Witness ==
    /\ SameBlockTwice
    /\ prevDraw.decode = "ok"
    /\ lastDraw.log[1].decode = "hit"

\* C2: once a frame is bound (gfx_anim_set_src, or a new current_frame,
\* followed by gfx_anim_preprocess_frame), last_block is -1 until a block of
\* that frame is rendered, and a draw call takes the cache-hit path only on
\* pixels decoded from the frame that is bound.
C2_NoStaleCache ==
    /\ (anim.frame.frame_data # NULL /\ ~probe.rendered)
           => anim.frame.last_block = -1
    /\ \A i \in LogIndex :
           lastDraw.log[i].decode = "hit"
               => lastDraw.from = anim.frame.frame_data

\* gfx_anim_preprocess_frame bound the second frame while a block of the
\* frame before it was cached
C2_Witness ==
    /\ probe.dropped
    /\ probe.prepOk
    /\ anim.current_frame = 1
    /\ anim.frame.frame_data # NULL
    /\ anim.frame.last_block = -1

\* C3: whenever last_block = K >= 0 for the bound frame, the pixel buffer
\* holds the decoded pixels of block K: decoding block K into it once more
\* (its allocations succeeding, whatever byte lies behind its buffers)
\* can leave it as it is.
C3_BufferHoldsCachedBlock ==
    (anim.frame.frame_data # NULL /\ anim.frame.pixel_buffer # NULL
     /\ anim.frame.last_block >= 0)
        => \E t \in UninitBytes :
               gfx_anim_decode_block(
                   FrameBytes[anim.frame.frame_data.src][
                       anim.frame.frame_data.off],
                   anim.frame.block_offsets.mem, anim.frame.header,
                   anim.frame.last_block, anim.frame.pixel_buffer.mem,
                   anim.frame.header.width, anim.frame.header.block_height,
                   SwapColor,
                   [tail |-> t, alloc_huff |-> TRUE, alloc_jpeg |-> TRUE]).buf
               = anim.frame.pixel_buffer.mem

\* C4: a block with tag 1 whose Huffman stage fails (dictionary length
\* beyond the block, no payload, a bit path that leaves the tree) is
\* reported as a failed decode, is not composited, and does not become
\* last_block.
C4_HuffmanFailureIsLocal ==
    \A i \in LogIndex :
        (/\ lastDraw.log[i].tag = GFX_AAF_ENCODING_HUFFMAN
         /\ lastDraw.log[i].huff = "ESP_FAIL" \/ lastDraw.log[i].off_tree)
            => /\ lastDraw.log[i].decode = "fail"
               /\ ~lastDraw.log[i].composited
               /\ lastDraw.log[i].last_block # lastDraw.log[i].block

\* dest and last_block as entry i of the last draw call's log found them
DestBefore(i) ==
    IF i = 1 THEN BlankDest(lastDraw.r, BgColor) ELSE lastDraw.log[i - 1].dest
LastBlockBefore(i) ==
    IF i = 1 THEN lastDraw.before ELSE lastDraw.log[i - 1].last_block

\* the blocks of the bound frame whose rows a request r overlaps (the object
\* is at the origin and no request is empty or off the frame's columns)
BlocksUnder(r) ==
    {b \in 0..(anim.frame.header.blocks - 1) :
        /\ r.y1 < Min((b + 1) * anim.frame.header.block_height,
                      anim.frame.header.height)
        /\ r.y2 > b * anim.frame.header.block_height}

\* C9: a block whose first byte is none of the tags 0, 1, 2, 3 fails to
\* decode, its step leaves every destination pixel and last_block as it
\* found them, and every other block under the request is still processed.
C9_UnknownTagSkipped ==
    \A i \in LogIndex :
        (/\ lastDraw.log[i].decode # "hit"
         /\ lastDraw.log[i].tag \notin
                {GFX_AAF_ENCODING_RLE, GFX_AAF_ENCODING_HUFFMAN,
                 GFX_AAF_ENCODING_JPEG, GFX_AAF_ENCODING_HUFFMAN_DIRECT})
            => /\ lastDraw.log[i].decode = "fail"
               /\ ~lastDraw.log[i].composited
               /\ lastDraw.log[i].dest = DestBefore(i)
               /\ lastDraw.log[i].last_block = LastBlockBefore(i)
               /\ Touched(lastDraw) = BlocksUnder(lastDraw.r)

\* a draw call met an unknown tag in block 0 and went on to decode and
\* composite block 1
C9_Witness ==
    /\ lastDraw # NULL
    /\ Len(lastDraw.log) = 2
    /\ lastDraw.log[1].why = "unknown"
    /\ lastDraw.log[2].decode = "ok"
    /\ lastDraw.log[2].dest # lastDraw.log[1].dest

\* C10: in a frame of bit depth 4 or 8 a block tagged JPEG is rejected
\* without anything decoded into the pixel buffer.
C10_JpegOnlyAtDepth24 ==
    \A i \in LogIndex :
        (/\ lastDraw.log[i].tag = GFX_AAF_ENCODING_JPEG
         /\ anim.frame.header.bit_depth # 24)
            => /\ lastDraw.log[i].decode = "fail"
               /\ lastDraw.log[i].hi = 0

\* the check of gfx_aaf_format_init a damaged container fails first
FirstDamage(dmg) ==
    IF dmg.magic THEN "magic"
    ELSE IF dmg.string > 0 THEN "string"
    ELSE IF dmg.checksum # "none" THEN "checksum"
    ELSE IF dmg.frame >= 0 THEN "frame_magic"
    ELSE "none"

\* C5: gfx_aaf_format_init checks the magic byte, "AAF", the checksum and
\* every frame's magic in this order; when any of them fails it returns an
\* error and a NULL handle, and it returns a handle (with an entry for every
\* frame) only when all of them pass.
C5_OpenIsFailFast ==
    Returned("gfx_aaf_format_init") =>
        IF ~call.alloc_parser
        THEN /\ call.result.ret = "ESP_ERR_NO_MEM"
             /\ call.result.parser = NULL
        ELSE /\ call.result.failed = FirstDamage(call.damage)
             /\ (call.result.ret = "ESP_OK")
                    = (FirstDamage(call.damage) = "none")
             /\ (call.result.parser = NULL)
                    = (FirstDamage(call.damage) # "none")
             /\ call.result.parser # NULL
                    => /\ call.result.parser.total_frames = 2
                       /\ Len(call.result.parser.entries) = 2

\* a container whose only fault is the magic of its second frame was refused
\* as a whole
C5_Witness ==
    /\ Returned("gfx_aaf_format_init")
    /\ call.alloc_parser
    /\ call.damage = [magic |-> FALSE, string |-> 0, checksum |-> "none",
                      frame |-> 1]
    /\ call.result.ret = "ESP_ERR_INVALID_CRC"
    /\ call.result.parser = NULL

\* C6: a bit sequence that reaches a missing child makes the Huffman decoder
\* report a failure, together with the number of bytes emitted before it.
C6_OffTreeIsFailure ==
    (Returned("gfx_aaf_huffman_decode") /\ call.result.bad_bit >= 0)
        => /\ call.result.ret = "ESP_FAIL"
           /\ call.result.output_len = Len(call.result.emitted)

\* C7: a block with tag 1 decodes successfully only when the RLE stage
\* expanded to exactly width * block_height bytes.
C7_ExactExpansion ==
    (/\ Returned("gfx_anim_decode_block")
     /\ call.result.tag = GFX_AAF_ENCODING_HUFFMAN
     /\ call.result.ret = "ESP_OK")
        => call.result.hi = call.width * call.block_height

\* the sum of the counts of the first j pairs of an RLE input, the number of
\* its pairs, and the first pair whose count takes the sum beyond cap (0:
\* none does)
RECURSIVE CountsBefore(_, _)
CountsBefore(input, j) ==
    IF j = 0 THEN 0 ELSE CountsBefore(input, j - 1) + input[2 * j - 1]
Pairs(input) == (Len(input) + 1) \div 2
FirstOverflow(input, cap) ==
    LET over == {j \in 1..Pairs(input) : CountsBefore(input, j) > cap}
    IN  IF over = {} THEN 0 ELSE CHOOSE j \in over : \A k \in over : j <= k

\* the value of the pair that covers output index k (counted from 1)
ValueAt(input, k, tail) ==
    Rd(input,
       2 * (CHOOSE j \in 1..Pairs(input) :
                CountsBefore(input, j - 1) < k /\ k <= CountsBefore(input, j))
       - 1, tail)

\* C8: gfx_aaf_rle_decode fails exactly when the cumulative count of its
\* pairs exceeds output_len, at the first pair that does (having expanded the
\* pairs before it and read nothing behind it), it stores nothing but those
\* pairs, so no byte at an index >= output_len, and gfx_anim_decode_block
\* fails with it.
C8_RleOverflowFails ==
    /\ Returned("gfx_aaf_rle_decode") =>
           /\ call.result.ok = (FirstOverflow(call.input, call.output_len) = 0)
           /\ ~call.result.ok =>
                  /\ call.result.out_pos =
                         CountsBefore(call.input,
                                      FirstOverflow(call.input,
                                                    call.output_len) - 1)
                  /\ call.result.in_hi =
                         2 * FirstOverflow(call.input, call.output_len)
           /\ \A k \in 1..Len(call.output) :
                  call.result.out[k] =
                      IF k <= call.result.out_pos
                      THEN ValueAt(call.input, k, call.tail)
                      ELSE call.output[k]
    /\ (/\ Returned("gfx_anim_decode_block")
        /\ call.result.tag = GFX_AAF_ENCODING_RLE
        /\ FirstOverflow(Tail(call.block_data),
                         call.width * call.block_height) > 0)
           => call.result.ret = "ESP_FAIL"

\* an RLE input overflowed at its second pair, the first one expanded
C8_Witness ==
    /\ Returned("gfx_aaf_rle_decode")
    /\ ~call.result.ok
    /\ call.result.out_pos > 0
    /\ call.result.in_hi = 4

\* the cache state of a frame info: what gfx_draw_animation decodes and
\* composites from
CacheState(frame) ==
    [header |-> frame.header, block_offsets |-> frame.block_offsets,
     pixel_buffer |-> frame.pixel_buffer,
     color_palette |-> frame.color_palette, last_block |-> frame.last_block]

\* the step is a gfx_anim_preprocess_frame call whose allocation failAt
\* fails: `full` is what the call returns when no allocation fails, `cut`
\* what it returns now
AllocFailureStep(full, cut) ==
    /\ call = NULL
    /\ anim.file_desc # NULL
    /\ full.ret
    /\ ~cut.ret
    /\ anim' = [anim EXCEPT !.frame = cut.frame]
    /\ lastDraw' = NULL
    /\ ~probe'.prepOk

\* C11: a gfx_anim_preprocess_frame call in which the allocation of the block
\* offsets, the decode buffer or the palette cache fails leaves nothing to
\* render for the frame and leaves the cache state (header, offsets, pixel
\* buffer, palette cache, last_block) as it found it.
C11_AllocFailureKeepsCache ==
    [][\A failAt \in {"offsets", "pixel", "cache"} :
          AllocFailureStep(gfx_anim_preprocess_frame(anim, "none", 0),
                           gfx_anim_preprocess_frame(anim, failAt, 0))
              => /\ anim'.frame.block_offsets = NULL
                        \/ anim'.frame.pixel_buffer = NULL
                 /\ CacheState(anim'.frame) = CacheState(anim.frame)]_vars

\* C12: with the mirror enabled and a destination wide enough for both
\* copies, every block rendered leaves, in each of its rows, the colour of
\* source column x at destination column x and the same colour at column
\* width + mirror_offset + width - 1 - x, whatever the bit depth.
C12_MirrorIsExact ==
    Returned("gfx_draw_animation") =>
        \A i \in 1..Len(call.result.log) :
            call.result.log[i].composited =>
                \A y \in call.result.log[i].clip.y1
                             ..(call.result.log[i].clip.y2 - 1),
                   x \in 0..(FrameWidth - 1) :
                    call.result.dest[
                        y * (2 * FrameWidth + call.mirror_offset) + x + 1]
                    = call.result.dest[
                          y * (2 * FrameWidth + call.mirror_offset)
                          + (FrameWidth + call.mirror_offset + FrameWidth
                             - 1 - x) + 1]

\* C13: every buffer allocated for an animation instance is released exactly
\* once: at every moment the buffers of the parsed header are ones the
\* release of the header (guarded by header.width > 0) will free, and after
\* gfx_obj_delete none of the instance's buffers remains allocated.
C13_NoLeak ==
    /\ anim.frame.header.width = 0
           => /\ anim.frame.header.block_len = NULL
              /\ anim.frame.header.palette = NULL
    /\ Returned("gfx_obj_delete") => call.result.remaining = {}

\* C14: for every container gfx_aaf_format_init accepts,
\* gfx_aaf_format_get_total_frames returns the number of frames the container
\* declares, and the bytes at every frame's gfx_aaf_format_get_frame_data
\* begin with the tag "_S" or "_R".
C14_AcceptedFramesAreTagged ==
    (Returned("gfx_aaf_format_get_frame_data") /\ call.result.ret = "ESP_OK")
        => /\ call.result.total_frames = Len(call.frames)
           /\ \A i \in 1..Len(call.frames) :
                  call.result.tags[i] \in {TagS, TagR}

\* C15: for an index from the frame count on, gfx_aaf_format_get_frame_data
\* returns NULL, gfx_aaf_format_get_frame_size returns -1 and
\* gfx_anim_preprocess_frame reports failure; for an index below the frame
\* count they return the frame's bytes and size, without its 2-byte magic.
C15_IndexOutOfRangeIsAnError ==
    (Returned("gfx_aaf_format_get_frame_data") /\ call.result.ret = "ESP_OK")
        => IF call.index >= Len(call.frames)
           THEN /\ call.result.data = NULL
                /\ call.result.size = -1
                /\ call.result.preprocess = [ret |-> FALSE]
           ELSE /\ call.result.data # NULL
                /\ call.result.size = Len(call.frames[call.index + 1])
                /\ SubSeq(call.result.bytes, 1, call.result.size)
                       = call.frames[call.index + 1]

\* a container of two frames was asked for its frame 2
C15_Witness ==
    /\ Returned("gfx_aaf_format_get_frame_data")
    /\ call.result.ret = "ESP_OK"
    /\ Len(call.frames) = 2
    /\ call.index = 2
    /\ call.result.data = NULL

\* C16: when no allocation fails, gfx_aaf_parse_header returns split-bitmap
\* exactly for the tag "_S" with bit depth 4, 8 or 24, redirect exactly for
\* the tag "_R", and invalid for everything else, whatever the other bytes.
C16_HeaderClassification ==
    (Returned("gfx_aaf_parse_header") /\ call.alloc_len /\ call.alloc_pal)
        => call.result.format =
               IF call.tag = <<95, 83>>
               THEN IF call.depth \in {4, 8, 24} THEN "SBMP" ELSE "INVALID"
               ELSE IF call.tag = <<95, 82>> THEN "REDIRECT"
               ELSE "INVALID"

\* an "_S" header of depth 16 with two blocks was parsed and refused
C16_Witness ==
    /\ Returned("gfx_aaf_parse_header")
    /\ call.alloc_len /\ call.alloc_pal
    /\ call.tag = <<95, 83>>
    /\ call.depth = 16
    /\ call.blocks = 2
    /\ call.result.format = "INVALID"

\* the sum of the lengths of the first i blocks of a header
RECURSIVE SumBlockLen(_, _)
SumBlockLen(header, i) ==
    IF i = 0 THEN 0
    ELSE SumBlockLen(header, i - 1) + header.block_len.mem[i]

\* C17: for every split-bitmap header, whatever its 16-bit block count, the
\* data offset stored is 18 + 4 * blocks + palette bytes (4 * 2^depth for the
\* depths 4 and 8, none for 24), and the offset of block i is the data offset
\* plus the lengths of the blocks before it.
C17_DataOffset ==
    (Returned("gfx_aaf_parse_header") /\ call.result.format = "SBMP")
        => /\ call.result.header.data_offset =
                  18 + 4 * call.blocks
                  + (IF call.depth = 24 THEN 0
                     ELSE IF call.depth = 4 THEN 64 ELSE 1024)
           /\ \A i \in 1..Len(call.result.offsets) :
                  call.result.offsets[i] =
                      call.result.header.data_offset
                      + SumBlockLen(call.result.header, i - 1)

\* the call decodes a block packed from call.msg
PackedCall ==
    Returned("gfx_aaf_huffman_decode") /\ "msg" \in DOMAIN call

C19_RleRoundTrip ==
    /\ (Returned("gfx_aaf_rle_decode") /\ "stream" \in DOMAIN call)
           => /\ call.result.ok
              /\ call.result.out_pos = Len(call.stream)
              /\ call.result.in_hi = call.input_len
              /\ SubSeq(call.result.out, 1, Len(call.stream)) = call.stream
              /\ From(call.result.out, Len(call.stream))
                     = From(call.output, Len(call.stream))
    /\ (Returned("gfx_aaf_rle_decode") /\ call.input_len = 0)
           => /\ call.result.ok
              /\ call.result.out_pos = 0
              /\ call.result.out = call.output

\* a stream of a run of 255 bytes followed by a run of another value came
\* back from its two pairs
C19_Witness ==
    /\ Returned("gfx_aaf_rle_decode")
    /\ "stream" \in DOMAIN call
    /\ call.input = <<255, 7, 2, 0>>
    /\ call.result.ok
    /\ call.result.out[255] = 7
    /\ call.result.out[257] = 0
    /\ call.result.out[258] = 255

\* an empty input was decoded into a buffer with room
C19_WitnessEmpty ==
    /\ Returned("gfx_aaf_rle_decode")
    /\ call.input_len = 0
    /\ call.output_len > 0
    /\ call.result.ok

\* bitwise and / or of two naturals, and the shifts of C on 16-bit values
RECURSIVE BitAnd(_, _)
BitAnd(a, b) ==
    IF a = 0 \/ b = 0 THEN 0
    ELSE (a % 2) * (b % 2) + 2 * BitAnd(a \div 2, b \div 2)
RECURSIVE BitOr(_, _)
BitOr(a, b) ==
    IF a = 0 THEN b
    ELSE IF b = 0 THEN a
    ELSE (IF a % 2 = 1 \/ b % 2 = 1 THEN 1 ELSE 0)
             + 2 * BitOr(a \div 2, b \div 2)
Shl(a, n) == a * 2 ^ n
Shr(a, n) == a \div 2 ^ n

\* ((R & 0xF8) << 8) | ((G & 0xFC) << 3) | (B >> 3) of an entry B, G, R, unused
Rgb565(entry) ==
    BitOr(BitOr(Shl(BitAnd(entry[3], 248), 8), Shl(BitAnd(entry[2], 252), 3)),
          Shr(entry[1], 3))

\* C20: gfx_aaf_parse_palette returns the 5-6-5 truncation of the entry at
\* the index when swap is false, and the 16-bit byte swap of that value when
\* swap is true.
C20_PaletteResolution ==
    Returned("gfx_aaf_parse_palette")
        => call.result.full =
               IF call.swap
               THEN BitOr(BitAnd(Shl(Rgb565(call.entry), 8), 65535),
                          Shr(Rgb565(call.entry), 8))
               ELSE Rgb565(call.entry)

\* the second entry of a palette, with bits below every truncation step set
\* in each channel and different R and B, was resolved byte-swapped
C20_Witness ==
    /\ Returned("gfx_aaf_parse_palette")
    /\ call.entry = <<7, 251, 132, 255>>
    /\ call.index = 1
    /\ call.swap
    /\ call.result.full = 49287

\* C21: a container that opens, with one byte of its stored-length region
\* behind offset 16 changed to a different value, is refused by
\* gfx_aaf_format_init at the checksum comparison.
C21_ByteChangeIsRefused ==
    (Returned("gfx_aaf_format_init") /\ "at" \in DOMAIN call)
        => /\ Rd(call.data, call.at, 0) # call.was
           /\ call.result.ret = "ESP_ERR_INVALID_CRC"
           /\ call.result.parser = NULL
           /\ call.result.failed = "checksum"

\* a byte of the frame table (the low byte of the second frame's offset) of
\* the 4-bit container was changed and the container refused
C21_Witness ==
    /\ Returned("gfx_aaf_format_init")
    /\ "at" \in DOMAIN call
    /\ call.src = 5
    /\ call.at = GFX_AAF_TABLE_OFFSET + 12
    /\ call.result.ret = "ESP_ERR_INVALID_CRC"

\* the palette index of pixel (sx, sy) of a decoded block: a byte a pixel at
\* depth 8; at depth 4 two pixels a byte, the even x in the high nibble
SourceIndex(buf, header, sx, sy) ==
    IF header.bit_depth = 8 THEN buf[sy * header.width + sx + 1]
    ELSE IF sx % 2 = 0
    THEN buf[(sy * header.width + sx) \div 2 + 1] \div 16
    ELSE buf[(sy * header.width + sx) \div 2 + 1] % 16

\* the pixel (X, Y) of the screen in the destination buffer of request r
DestAt(dest, r, X, Y) == dest[(Y - r.y1) * (r.x2 - r.x1) + (X - r.x1) + 1]

\* the draw call composited exactly one block of a palette frame
OneBlockDrawn ==
    /\ Returned("gfx_draw_animation at")
    /\ call.result.drew
    /\ call.result.frame.header.bit_depth \in {4, 8}
    /\ Len(call.result.log) = 1
    /\ call.result.log[1].composited

\* C22: every destination pixel (X, Y) inside the clip rectangle of a
\* composited block of a palette frame holds the palette colour of the index
\* of source pixel (X - obj_x, Y - obj_y) of the decoded block.
C22_PaletteCompositing ==
    OneBlockDrawn =>
        LET e == call.result.log[1]
            header == call.result.frame.header
        IN  \A X \in e.clip.x1..(e.clip.x2 - 1),
               Y \in e.clip.y1..(e.clip.y2 - 1) :
                DestAt(call.result.dest, call.r, X, Y)
                = gfx_aaf_parse_palette(
                      header,
                      SourceIndex(call.result.frame.pixel_buffer.mem, header,
                                  X - call.obj_x,
                                  Y - call.obj_y
                                    - e.block * header.block_height),
                      SwapColor)

\* the pixels of the destination buffer that entry i of the log changed
ChangedBy(i) ==
    LET before == IF i = 1 THEN BlankDest(call.r, BgColor)
                  ELSE call.result.log[i - 1].dest
    IN  {k \in 1..Len(before) : call.result.log[i].dest[k] # before[k]}

\* pixel k of the destination buffer of request r is a pixel of the request,
\* of the frame placed at (ox, oy) and of the rows of `block`
InIntersection(k, r, header, ox, oy, block) ==
    LET X == r.x1 + ((k - 1) % (r.x2 - r.x1))
        Y == r.y1 + ((k - 1) \div (r.x2 - r.x1))
        last == IF block = header.blocks - 1 THEN header.height
                ELSE (block + 1) * header.block_height
    IN  /\ k <= (r.x2 - r.x1) * (r.y2 - r.y1)
        /\ ox <= X /\ X < ox + header.width
        /\ oy + block * header.block_height <= Y /\ Y < oy + last

\* C23: every pixel a non-mirrored gfx_draw_animation changes while it
\* composites a block lies in the request rectangle, in the placed frame and
\* in the rows of that block; every other pixel of the destination buffer and
\* the memory behind it keep their values.
C23_WritesStayInClip ==
    Returned("gfx_draw_animation at") =>
        \A i \in 1..Len(call.result.log) :
            \A k \in ChangedBy(i) :
                InIntersection(k, call.r, call.result.frame.header,
                               call.obj_x, call.obj_y,
                               call.result.log[i].block)

\* every slot of the palette cache is unresolved or the colour of its index
\* in the palette of header under the flag swap
CacheMatches(cache, header, swap) ==
    \A i \in 1..Len(cache) :
        \/ cache[i] = PALETTE_SENTINEL
        \/ cache[i] = gfx_aaf_parse_palette(header, i - 1, swap)

C25_UnusableNeverDrawn ==
    (lastDraw # NULL /\ ~probe.prepOk)
        => /\ ~lastDraw.drew
           /\ lastDraw.log = <<>>
           /\ lastDraw.dest = BlankDest(lastDraw.r, BgColor)

\* a draw call came after a gfx_anim_preprocess_frame that parsed a header
\* of a frame and then failed at an allocation
C25_Witness ==
    /\ lastDraw # NULL
    /\ ~probe.prepOk
    /\ anim.file_desc # NULL
    /\ anim.frame.frame_data # NULL
    /\ anim.frame.header.width > 0
    /\ lastDraw.log = <<>>

\* C28: once a source is set, start_frame <= current_frame <= end_frame <=
\* frame count - 1 in every state that gfx_anim_set_segment,
\* gfx_anim_start, gfx_anim_stop and the timer callback lead to.
C28_PlaybackRange ==
    anim.file_desc # NULL
        => /\ anim.start_frame <= anim.current_frame
           /\ anim.current_frame <= anim.end_frame
           /\ anim.end_frame <= anim.file_desc.total_frames - 1

\* C29: under a timer that keeps ticking, a playing animation with repeat
\* off comes to is_playing = false; a stopped animation is set playing by
\* gfx_anim_start only and until then marks nothing dirty; a playing
\* animation with repeat on is stopped by gfx_anim_stop only, goes to
\* start_frame on the tick after end_frame and, unless stopped, comes to
\* every frame of [start_frame, end_frame] again and again; gfx_anim_start
\* on a playing and gfx_anim_stop on a stopped animation change nothing.
C29_PlaybackProgress ==
    /\ (anim.is_playing /\ ~anim.repeat) ~> ~anim.is_playing
    /\ [][/\ (~anim.is_playing /\ anim'.is_playing)
                 => anim' = gfx_anim_start(anim)
          /\ (~anim.is_playing /\ ~anim'.is_playing)
                 => (obj'.is_dirty => obj.is_dirty)
          /\ (anim.is_playing /\ anim.repeat /\ ~anim'.is_playing)
                 => anim' = gfx_anim_stop(anim)
          /\ (TimerTick /\ anim.is_playing /\ anim.repeat
              /\ anim.current_frame = anim.end_frame)
                 => anim'.current_frame = anim.start_frame
          /\ (Start /\ anim.is_playing) => (anim' = anim /\ obj' = obj)
          /\ (Stop /\ ~anim.is_playing) => (anim' = anim /\ obj' = obj)]_vars
    /\ \A f \in 0..MaxSegmentFrame :
           []((anim.is_playing /\ anim.repeat
               /\ anim.start_frame <= f /\ f <= anim.end_frame)
                  => <>(~anim.is_playing \/ anim.current_frame = f))

\* an animation with repeat off was stopped by the tick after its last frame
C29_Witness ==
    /\ ~anim.is_playing
    /\ ~anim.repeat
    /\ anim.start_frame < anim.end_frame
    /\ anim.current_frame = anim.end_frame + 1
    /\ obj.is_dirty

\* ------------------------------------------------------------ C26

\* C26: every byte gfx_anim_decode_block stores in the pixel buffer is at an
\* index below the size gfx_anim_preprocess_frame allocates for the frame's
\* bit depth (4, 8 or 24), and every byte stored in the Huffman scratch
\* buffer is at an index below width * block_height, whatever the encoding
\* of the block.
C26_DecodeStaysInBuffers ==
    Returned("gfx_anim_decode_block")
        => /\ call.result.hi <= Len(call.decode_buffer)
           /\ call.result.scratch_hi <= call.width * call.block_height

\* ------------------------------------------------------------ C27

\* C27: the block decoders read no input byte at an index at or beyond the
\* length they were given: gfx_aaf_rle_decode for every input length, odd
\* ones included; the table loop of decode_huffman_data for every table
\* length, a table ending inside a triple included; gfx_aaf_huffman_decode
\* for every block length >= 1 when it loads the dictionary length.
C27_ReadsStayInInput ==
    /\ Returned("gfx_aaf_rle_decode")
            => call.result.in_hi <= call.input_len
    /\ Returned("gfx_aaf_huffman_decode")
            => /\ call.result.dict_hi <= call.result.dict_len
               /\ call.result.in_hi <= call.buflen

\* ------------------------------------------------------------ C30

\* gfx_anim_set_src with container b refused by gfx_aaf_format_init for its
\* magic byte, format string, checksum or a frame magic (the parser context
\* was allocated)
RejectedRebinding(b) ==
    /\ b[1]
    /\ Opened[TRUE][b[2]].parser = NULL
    /\ SetSrcFrom({b})

\* C30: a gfx_anim_set_src that fails because the new container does not
\* validate leaves the bound container, the parsed frame header, the frame
\* data, start_frame, end_frame, current_frame and is_playing as they were.
C30_RejectedRebindingKeepsInstance ==
    [][\A b \in SetSrcEnvs :
          RejectedRebinding(b)
              => /\ anim'.file_desc = anim.file_desc
                 /\ anim'.frame.header = anim.frame.header
                 /\ anim'.frame.frame_data = anim.frame.frame_data
                 /\ anim'.frame.frame_size = anim.frame.frame_size
                 /\ anim'.start_frame = anim.start_frame
                 /\ anim'.end_frame = anim.end_frame
                 /\ anim'.current_frame = anim.current_frame
                 /\ anim'.is_playing = anim.is_playing]_vars

====
